---- MODULE Spec2Model ----
(***************************************************************************)
(* Account acquisition pipeline of refresh-gemini-business.                *)
(*                                                                         *)
(*   - ClashManager.find_healthy_node and the calls it makes               *)
(*     (src/src/clash_manager.py)                                          *)
(*   - register_new_account / register_single_account,                     *)
(*     process_existing_account / refresh_single_account and their         *)
(*     callers main_async, run_register_task, run_refresh_task             *)
(*     (src/src/main.py, src/src/api_server.py)                            *)
(*   - the MailClient and BrowserController operations those call          *)
(*     (src/src/mail_client.py, src/src/browser_controller.py)             *)
(*   - update_accounts_json, append_to_csv and DataPusher.push             *)
(*     (src/src/utils.py, src/src/data_pusher.py)                          *)
(*                                                                         *)
(* The specifications share the variables:                                *)
(*   SpecFind     one call of find_healthy_node over every small proxy     *)
(*                environment;                                             *)
(*   Spec         one job (a register batch or a refresh) from start to    *)
(*                end;                                                     *)
(*   SpecMail     one MailClient: clear_inbox and wait_for_code request    *)
(*                by request (SpecMailFair: the polling loop keeps going); *)
(*   SpecExtract  one call of MailClient._extract_code on a message body;  *)
(*   SpecCookies  one call of BrowserController.extract_cookies;           *)
(*   SpecTask     one API task with its TaskInfo, under weak fairness;     *)
(*   SpecStore    update_accounts_json calls on accounts.json;             *)
(*   SpecLedger   append_to_csv calls on result.csv;                       *)
(*   SpecPusher   one call of DataPusher.push;                             *)
(*   SpecTwo      two register tasks sharing the one ClashManager;         *)
(*   SpecLogin    one call of BrowserController.login;                     *)
(*   SpecEnter    one call of BrowserController.enter_verification_code;   *)
(*   SpecWaitc    one call of BrowserController.wait_for_login_complete,   *)
(*                under weak fairness;                                     *)
(*   SpecPrep     ClashManager._prepare_config on every small              *)
(*                configuration file;                                      *)
(*   SpecProf     the sessions BrowserController.start launches and the    *)
(*                profile directory they share;                            *)
(*   SpecPosted   one API task with the count as posted (any int).         *)
(***************************************************************************)
EXTENDS Integers, Sequences, FiniteSets, TLC

VARIABLES
    \* ---- proxy control API and routes (the mihomo process) ----
    proxies,      \* what GET /proxies lists: a sequence of group records
    latResp,      \* node -> the answer of GET /proxies/<node>/delay
    reach,        \* node -> a request routed through the node reaches the target
    selected,     \* group -> the node the group routes through ("now")
    \* ---- one call of find_healthy_node ----
    fpc,          \* "idle" | "start" | "loop" | "done"
    fgname,       \* the group_name argument
    fgroup,       \* the resolved group
    forder,       \* all_nodes after random.shuffle
    fi,           \* position of the for loop in forder (1-based)
    fresult,      \* the value returned
    probes,       \* node -> number of test_latency calls in this call
    selectCalls,  \* nodes select_proxy was called with in this call
    selectFailed, \* some select_proxy of this call did not switch the group
    findCalls,    \* number of find_healthy_node calls made
    listFailed,   \* get_proxies of the latest find_healthy_node call failed
    \* ---- the job ----
    kind,         \* "cli_register" | "api_register" | "cli_refresh" | "api_refresh"
    count,        \* accounts of the batch (args.count, req.count, CSV rows)
    accounts,     \* cli_refresh: the emails read from the CSV
    proxyNodeArg, \* cli_refresh: args.proxy_node
    pc,           \* position of the job
    i,            \* index of the account loop (0-based)
    attempt,      \* index of the attempt loop (0-based)
    email,        \* local: the account's email
    password,     \* local: the account's password
    cookie_data,  \* local: the dict extract_cookies returned (plus merged fields)
    ret,          \* what the account function returns: "none" | "value"
    existing_accounts, \* cli_refresh: emails found in accounts.json at start
    \* ---- MailClient of the current attempt and the mail provider ----
    mailCreds,    \* the client's email and password fields
    mailToken,    \* the client holds a token
    registerCalls,\* MailClient.register calls of the account function
    bindCalls,    \* times the account function bound a client to given credentials
    inbox,        \* messages that were in the inbox before login was submitted
    clearCalls,   \* clear_inbox calls of the account function
    codeFrom,     \* the message wait_for_code took the code from
    codePoll,     \* the poll of wait_for_code that gave the code (0: no code)
    \* ---- BrowserController of the current attempt ----
    sess,         \* BrowserController objects the account function created
    hasSession,   \* the current attempt has a BrowserController
    res,          \* its playwright driver, browser engine and context
    stops,        \* stop() calls on it (kept until the next one is created)
    liveOthers,   \* earlier sessions of the account function that are over
                  \* and still hold an open resource
    \* ---- artifact store, seed ledger ----
    store,        \* accounts.json: sequence of records
    ledger,       \* result.csv: sequence of rows
    \* ---- API task / CLI counters ----
    status,       \* TaskInfo.status
    progress,     \* TaskInfo.progress
    taskError,    \* TaskInfo.error is set
    completedAt,  \* TaskInfo.completed_at is set
    results,      \* run_register_task: emails of the registered accounts
    success_count,
    fail_count,
    \* ---- history of the current account function call ----
    nodeFound,    \* a proxy node was obtained
    attemptsMade, \* attempts begun
    regOk,        \* successful MailClient.register calls
    loginTrue,    \* some browser.login call returned True
    loggedIn,     \* browser.login was called in the current attempt
    stages,       \* the steps the current attempt has called, with their results
    \* ---- one MailClient on its own: clear_inbox, then wait_for_code ----
    mpc,          \* "idle" | "ready" | "cleared" | "poll" | "done"
    mtoken,       \* self.token: 0 for None, else the number of the token
    mtokens,      \* tokens the provider has issued to the client
    m401,         \* tokens that a request was answered 401 for
    stalePolls,   \* inbox requests sent with a token of m401
    mbox,         \* the provider's inbox, newest message first
    mlisted,      \* clear_inbox: the ids the listing returned
    mtried,       \* clear_inbox: the ids a DELETE was sent for
    mret,         \* the value the latest call returned
    mraised,      \* the latest call raised
    wtimeout,     \* wait_for_code: the timeout argument, in seconds
    welapsed,     \* wait_for_code: time.time() - start_time
    wpolls,       \* wait_for_code: passes of the polling loop
    wfirst,       \* wait_for_code: the first message the latest poll listed
    wsawCode,     \* wait_for_code: some poll extracted a code
    text,         \* _extract_code: the body, as a sequence of pieces
    extracted,    \* _extract_code: the position of the code it returned
    cpc,          \* extract_cookies: "idle", "ready", "done"
    ctx,          \* extract_cookies: the page, the context and the clock
    result,       \* extract_cookies: the dict it returned
    eraised,      \* extract_cookies: the call raised
    \* ---- accounts.json on its own: a sequence of update_accounts_json calls ----
    jstore,       \* the records of the file
    jprev,        \* the records before the latest call
    jcall,        \* the latest call: email, cookie value, time, raised
    jclock,       \* the time of the next call (0: no file is looked at)
    \* ---- result.csv on its own: a sequence of append_to_csv calls ----
    lexists,      \* the file exists
    lrows,        \* its rows after the header
    lprev,        \* the rows before the latest call
    lcall,        \* the latest call: its number (0: none) and what it returned
    \* ---- one DataPusher.push call ----
    pusher,       \* target_url set, retry_count, position, attempt, the
                  \* answers of the POSTs made, the value returned, raised
    \* ---- two register tasks on the one ClashManager ----
    jobs,         \* task -> its position, its node, its browser session is
                  \* live, the routes of the groups when the session started
    \* ---- one call of BrowserController.login ----
    login,        \* position, the loop indices, what goto answered, what the
                  \* polls saw, when continue was retried, the value returned
    \* ---- one call of BrowserController.enter_verification_code ----
    enter,        \* position, the lookups and polls made, the URL last read,
                  \* the polls that first saw a marker, the value returned
    \* ---- one call of BrowserController.wait_for_login_complete ----
    waitc,        \* position, the timeout argument, the URL reads made, the
                  \* URL last read, the read that saw a marker, the result
    \* ---- one call of ClashManager._prepare_config ----
    prep,         \* position, the configuration read, the runtime
                  \* configuration written, the rules were synthesized
    \* ---- the browser profile directory and the sessions started on it ----
    prof          \* the directory exists, the sessions whose state it holds,
                  \* session -> position, launch path, state found at launch

findVars == <<proxies, latResp, reach, selected, fpc, fgname, fgroup, forder,
              fi, fresult, probes, selectCalls, selectFailed, findCalls,
              listFailed>>
jobVars == <<kind, count, accounts, proxyNodeArg>>
localVars == <<email, password, cookie_data, ret, existing_accounts>>
mailVars == <<mailCreds, mailToken, registerCalls, bindCalls,
              inbox, clearCalls, codeFrom, codePoll>>
browserVars == <<sess, hasSession, res, stops, liveOthers>>
outVars == <<store, ledger>>
taskVars == <<status, progress, taskError, completedAt, results,
              success_count, fail_count>>
histVars == <<nodeFound, attemptsMade, regOk, loginTrue, loggedIn, stages>>
mailUnitVars == <<mpc, mtoken, mtokens, m401, stalePolls, mbox, mlisted,
                  mtried, mret, mraised, wtimeout, welapsed, wpolls, wfirst,
                  wsawCode>>
extractVars == <<text, extracted>>
cookieVars == <<cpc, ctx, result, eraised>>
storeVars == <<jstore, jprev, jcall, jclock>>
ledgerVars == <<lexists, lrows, lprev, lcall>>
unitVars == <<mailUnitVars, extractVars, cookieVars, storeVars, ledgerVars,
              pusher, jobs, login, enter, waitc, prep, prof>>
orchVars == <<unitVars, jobVars, pc, i, attempt, localVars, mailVars,
              browserVars, outVars, taskVars, histVars>>

\* the variables of the job and of find_healthy_node
coreVars == <<findVars, jobVars, pc, i, attempt, localVars, mailVars,
              browserVars, outVars, taskVars, histVars>>
\* everything but the variables of one unit
restVars == <<coreVars, extractVars, cookieVars, storeVars, ledgerVars,
              pusher, jobs, login, enter, waitc, prep, prof>>
restExtract == <<coreVars, mailUnitVars, cookieVars, storeVars, ledgerVars,
                 pusher, jobs, login, enter, waitc, prep, prof>>
restCookies == <<coreVars, mailUnitVars, extractVars, storeVars, ledgerVars,
                 pusher, jobs, login, enter, waitc, prep, prof>>
restStore == <<coreVars, mailUnitVars, extractVars, cookieVars, ledgerVars,
               pusher, jobs, login, enter, waitc, prep, prof>>
restLedger == <<coreVars, mailUnitVars, extractVars, cookieVars, storeVars,
                pusher, jobs, login, enter, waitc, prep, prof>>
restPusher == <<coreVars, mailUnitVars, extractVars, cookieVars, storeVars,
                ledgerVars, jobs, login, enter, waitc, prep, prof>>
restJobs == <<jobVars, pc, i, attempt, localVars, mailVars, browserVars,
              outVars, taskVars, histVars, mailUnitVars, extractVars,
              cookieVars, storeVars, ledgerVars, pusher, login, enter, waitc,
              prep, prof>>
restLogin == <<coreVars, mailUnitVars, extractVars, cookieVars, storeVars,
               ledgerVars, pusher, jobs, enter, waitc, prep, prof>>
restEnter == <<coreVars, mailUnitVars, extractVars, cookieVars, storeVars,
               ledgerVars, pusher, jobs, login, waitc, prep, prof>>
restWaitc == <<coreVars, mailUnitVars, extractVars, cookieVars, storeVars,
               ledgerVars, pusher, jobs, login, enter, prep, prof>>
restPrep == <<coreVars, mailUnitVars, extractVars, cookieVars, storeVars,
              ledgerVars, pusher, jobs, login, enter, waitc, prof>>
restProf == <<coreVars, mailUnitVars, extractVars, cookieVars, storeVars,
              ledgerVars, pusher, jobs, login, enter, waitc, prep>>

-----------------------------------------------------------------------------
(* Values *)

NoNode == <<>>            \* Python None for a node: the name of no node
NoGroup == "nogroup"      \* Python None for a group name

\* Node names are sequences of words; a keyword is contained in a name when
\* it occurs as a contiguous run of the name (Python's `kw in node`).
N_US == <<"US", "1">>
N_HK == <<"HK", "2">>
N_DIRECT == <<"DIRECT">>
Nodes == {N_US, N_HK, N_DIRECT}

\* ClashManager.SKIP_KEYWORDS (the CJK keywords are written in English)
SKIP_KEYWORDS ==
    { <<"AUTO_SELECT">>, <<"FAILOVER">>, <<"DIRECT">>, <<"REJECT">>,
      <<"REMAINING">>, <<"EXPIRY">>, <<"WEBSITE">> }

Contains(s, kw) ==
    \E a \in 1..(Len(s) - Len(kw) + 1) : SubSeq(s, a, a + Len(kw) - 1) = kw

\* any(kw in node for kw in self.SKIP_KEYWORDS)
SkippedNoKeywords(node) == FALSE
Skipped(node) == \E kw \in SKIP_KEYWORDS : Contains(node, kw)

\* Answers of the delay endpoint: an exception of the request, or a status
\* and a JSON body that has a "delay" key or not.
R_pos    == [exc |-> FALSE, status |-> 200, hasDelay |-> TRUE,  delay |-> 120]
R_zero   == [exc |-> FALSE, status |-> 200, hasDelay |-> TRUE,  delay |-> 0]
R_absent == [exc |-> FALSE, status |-> 200, hasDelay |-> FALSE, delay |-> 0]
R_http   == [exc |-> FALSE, status |-> 503, hasDelay |-> FALSE, delay |-> 0]
R_exc    == [exc |-> TRUE,  status |-> 0,   hasDelay |-> FALSE, delay |-> 0]
LatResps == {R_pos, R_zero, R_absent, R_http, R_exc}

\* ClashManager.test_latency: latency in ms, or -1 if failed
test_latency(resp) ==
    IF resp.exc THEN -1
    ELSE IF resp.status = 200
         THEN (IF resp.hasDelay THEN resp.delay ELSE 0)
         ELSE -1

\* find_healthy_node: `if delay <= 0: continue`
DelayExcludedStrict(delay) == delay < 0
DelayExcluded(delay) == delay <= 0

\* Group records of GET /proxies, in the order of the response's keys
Group(n, t, a) == [name |-> n, type |-> t, all |-> a]

SeqOfSet(S) ==
    LET RECURSIVE Build(_)
        Build(T) == IF T = {} THEN <<>>
                    ELSE LET x == CHOOSE y \in T : TRUE
                         IN <<x>> \o Build(T \ {x})
    IN Build(S)

MemberLists == { SeqOfSet(S) : S \in SUBSET Nodes }

ProxyConfigs(m) ==
    { << Group("auto", "URLTest", m), Group("sel", "Selector", m) >>,
      << Group("empty", "Selector", <<>>), Group("sel", "Selector", m) >>,
      << Group("sel2", "Selector", m), Group("sel", "Selector", m) >>,
      << Group("auto", "URLTest", m) >> }

SelGroups == {"sel", "sel2"}
GroupArgs == {NoGroup, "sel", "missing"}

Range(s) == { s[a] : a \in 1..Len(s) }
Perms(s) ==
    { p \in [1..Len(s) -> Range(s)] : \A a, b \in 1..Len(s) : a # b => p[a] # p[b] }

HasGroup(px, g) == \E a \in 1..Len(px) : px[a].name = g
GroupOf(px, g) == px[CHOOSE a \in 1..Len(px) : px[a].name = g]

\* find_healthy_node, group resolution: the given group if the API lists it,
\* else the first Selector group with at least one member, else none.
ResolveGroup(px, gname) ==
    IF gname # NoGroup /\ HasGroup(px, gname) THEN gname
    ELSE LET cands == { a \in 1..Len(px) :
                          px[a].type = "Selector" /\ Len(px[a].all) > 0 }
         IN IF cands = {} THEN NoGroup
            ELSE px[CHOOSE a \in cands : \A b \in cands : a <= b].name

\* ClashManager.select_proxy: the PUT either switches the group, is answered
\* with an error status (not looked at: returns True), or raises (returns False).
SelectOutcomes == {"ok", "rejected", "exception"}
select_proxy(sel, g, node, out) ==
    IF out = "ok" THEN [sel EXCEPT ![g] = node] ELSE sel

\* ClashManager._test_google_access: a GET through the local mixed port, i.e.
\* through whatever node the group routes to at that moment.
test_google_access(sel, g) == reach[sel[g]]

-----------------------------------------------------------------------------
(* find_healthy_node *)

\* get_proxies (returns {} when the API fails), group resolution, shuffle
FindStart ==
    /\ fpc = "start"
    /\ \E up \in BOOLEAN :
         LET px == IF up THEN proxies ELSE <<>>
             g  == ResolveGroup(px, fgname)
         IN /\ fgroup' = g
            /\ listFailed' = ~up
            /\ IF g = NoGroup
               THEN /\ fpc' = "done"
                    /\ forder' = <<>>
               ELSE /\ \E ord \in Perms(GroupOf(px, g).all) : forder' = ord
                    /\ fpc' = "loop"
    /\ fresult' = NoNode
    /\ fi' = 1
    /\ probes' = [n \in Nodes |-> 0]
    /\ selectCalls' = {}
    /\ selectFailed' = FALSE
    /\ UNCHANGED <<proxies, latResp, reach, selected, fgname, findCalls>>
    /\ UNCHANGED orchVars

\* one iteration of `for node in all_nodes`
FindIter ==
    /\ fpc = "loop"
    /\ fi <= Len(forder)
    /\ LET node == forder[fi] IN
         IF Skipped(node)
         THEN /\ fi' = fi + 1
              /\ UNCHANGED <<fpc, fresult, probes, selectCalls, selectFailed,
                             selected>>
         ELSE /\ probes' = [probes EXCEPT ![node] = @ + 1]
              /\ IF DelayExcluded(test_latency(latResp[node]))
                 THEN /\ fi' = fi + 1
                      /\ UNCHANGED <<fpc, fresult, selectCalls, selectFailed,
                                     selected>>
                 ELSE /\ \E out \in SelectOutcomes :
                           /\ selected' = select_proxy(selected, fgroup, node, out)
                           /\ selectFailed' = (selectFailed \/ out # "ok")
                      /\ selectCalls' = selectCalls \cup {node}
                      /\ IF test_google_access(selected', fgroup)
                         THEN /\ fresult' = node
                              /\ fpc' = "done"
                              /\ UNCHANGED fi
                         ELSE /\ fi' = fi + 1
                              /\ UNCHANGED <<fpc, fresult>>
    /\ UNCHANGED <<proxies, latResp, reach, fgname, fgroup, forder, findCalls,
                   listFailed>>
    /\ UNCHANGED orchVars

\* the loop ran out of candidates: return None
FindExhausted ==
    /\ fpc = "loop"
    /\ fi > Len(forder)
    /\ fresult' = NoNode
    /\ fpc' = "done"
    /\ UNCHANGED <<proxies, latResp, reach, selected, fgname, fgroup, forder,
                   fi, probes, selectCalls, selectFailed, findCalls, listFailed>>
    /\ UNCHANGED orchVars

\* a caller invokes find_healthy_node(group_name)
FindCall ==
    /\ fpc = "idle"
    /\ \E g \in GroupArgs : fgname' = g
    /\ fpc' = "start"
    /\ findCalls' = findCalls + 1
    /\ UNCHANGED <<proxies, latResp, reach, selected, fgroup, forder, fi,
                   fresult, probes, selectCalls, selectFailed, listFailed>>
    /\ UNCHANGED orchVars

-----------------------------------------------------------------------------
(* The job: values and helpers *)

RegisterKinds == {"cli_register", "api_register"}
RefreshKinds == {"cli_refresh", "api_refresh"}
ApiKinds == {"api_register", "api_refresh"}
Kinds == RegisterKinds \cup RefreshKinds

MaxCount == 2          \* accounts per batch
MaxStale == 1          \* messages in an existing inbox before login
MaxCodePoll == 2       \* the polls of wait_for_code by which a code arrives

\* register_new_account / register_single_account: max_retries = 3
max_retries == 3

\* Emails and passwords are pairs <<origin, number>>.
Blank == <<"blank", 0>>
CsvEmail(k) == <<"csv", k>>
CsvPassword(k) == <<"csvpwd", k>>

\* MailClient.register generates the address and the password from random
\* characters and the clock; the provider creates an identity only for an
\* address it does not know yet, so each identity created is a new one.
FreshEmail(acct, att) == <<"tmp", acct * max_retries + att + 1>>
FreshPassword(acct, att) == <<"tmppwd", acct * max_retries + att + 1>>

NoCreds == [email |-> Blank, password |-> Blank]

\* process_existing_account: mail_client.email = email; .password = password
\* MailClient.login_existing: self.email = email; self.password = password
BoundCredsNoSecret(e, p) == [email |-> e, password |-> Blank]
BoundCreds(e, p) == [email |-> e, password |-> p]

\* extract_cookies' result dict, reduced to the fields the callers read
EmptyBundle == [secure_c_ses |-> "", email |-> Blank, password |-> Blank]
Bundle(v) == [secure_c_ses |-> v, email |-> Blank, password |-> Blank]

\* cookie_data["email"] = email; cookie_data["password"] = password
MergeIdentityNone(cd, e, p) == cd
MergeIdentity(cd, e, p) == [cd EXCEPT !.email = e, !.password = p]

\* `if not cookie_data.get("secure_c_ses")`: the extraction counts as failed
ExtractFailedNever(cd) == FALSE
ExtractFailed(cd) == cd.secure_c_ses = ""

\* The attempts an account function makes: the register functions loop
\* `for attempt in range(max_retries)`; the refresh functions have no loop.
MaxAttemptsAll(k) == max_retries
MaxAttempts(k) == IF k \in RegisterKinds THEN max_retries ELSE 1

\* Where a failed step leads: the register functions call stop() and
\* `continue`; the refresh functions `return` through `finally: stop()`.
StepFailPcNoStop(k) == IF k \in RegisterKinds THEN "continue" ELSE "finally_stop"
StepFailPc(k) == IF k \in RegisterKinds THEN "fail_stop" ELSE "finally_stop"

\* Where an exception raised inside the try block leads
ExceptPc(k) == IF k \in RegisterKinds THEN "handler_stop" ELSE "finally_stop"

\* ---- BrowserController resources ----
NoRes == [pw |-> "none", br |-> "none", ctx |-> "none"]
Live(r) == r.pw = "open" \/ r.br = "open" \/ r.ctx = "open"

\* BrowserController.start: the stage at which it raises, if any, and the
\* launch path (launch_persistent_context, or launch + new_context).
StartStages == {"pw_fail", "launch_fail", "context_fail", "late_fail", "ok"}
StartRes(stage, persistent) ==
    CASE stage = "pw_fail"      -> NoRes
      [] stage = "launch_fail"  -> [pw |-> "open", br |-> "none", ctx |-> "none"]
      [] stage = "context_fail" -> [pw |-> "open", br |-> "open", ctx |-> "none"]
      [] OTHER -> IF persistent
                  THEN [pw |-> "open", br |-> "none", ctx |-> "open"]
                  ELSE [pw |-> "open", br |-> "open", ctx |-> "open"]
StartOutcomes ==
    { o \in [stage : StartStages, persistent : BOOLEAN] :
        o.stage = "context_fail" => ~o.persistent }

\* BrowserController.stop: closes the context, the browser and the driver in
\* that order, each only if it is set; a close that raises ends the call and
\* leaves that resource open or closed.
StopOutcomes(r) ==
    { [raiseAt |-> "none", left |-> "closed"] } \cup
    { [raiseAt |-> x, left |-> l] :
        x \in { f \in {"ctx", "br", "pw"} : r[f] # "none" },
        l \in {"open", "closed"} }
Closed(v) == IF v = "none" THEN "none" ELSE "closed"
Left(v, l) == IF v = "closed" THEN "closed" ELSE l
StopRes(r, o) ==
    CASE o.raiseAt = "none" ->
           [pw |-> Closed(r.pw), br |-> Closed(r.br), ctx |-> Closed(r.ctx)]
      [] o.raiseAt = "ctx" ->
           [r EXCEPT !.ctx = Left(r.ctx, o.left)]
      [] o.raiseAt = "br" ->
           [r EXCEPT !.ctx = Closed(r.ctx), !.br = Left(r.br, o.left)]
      [] o.raiseAt = "pw" ->
           [pw |-> Left(r.pw, o.left), br |-> Closed(r.br), ctx |-> Closed(r.ctx)]
StopRaised(o) == o.raiseAt # "none"

\* ---- accounts.json ----
\* update_accounts_json: upsert by email; a new record gets id len + 1
StoreIndex(st, e) ==
    LET hits == { k \in 1..Len(st) : st[k].email = e }
    IN IF hits = {} THEN 0 ELSE CHOOSE k \in hits : \A j \in hits : k <= j
update_accounts_json(st, e, cd) ==
    LET idx == StoreIndex(st, e)
        rec == [id |-> IF idx = 0 THEN Len(st) + 1 ELSE st[idx].id,
                email |-> e,
                secure_c_ses |-> cd.secure_c_ses]
    IN IF idx = 0 THEN Append(st, rec) ELSE [st EXCEPT ![idx] = rec]

\* update_accounts_json computes datetime.now().replace(day=day + 7), which
\* raises ValueError when day + 7 is past the end of the month.
Today == { d \in [day : 1..31, monthLen : 28..31] : d.day <= d.monthLen }
UpdateRaises(d) == d.day + 7 > d.monthLen

\* ---- result.csv ----
\* append_to_csv: next id is the largest id + 1 (1 for no rows)
MaxId(lg) ==
    IF Len(lg) = 0 THEN 0
    ELSE CHOOSE m \in { lg[k].id : k \in 1..Len(lg) } :
           \A k \in 1..Len(lg) : lg[k].id <= m
append_to_csv(lg, e) == Append(lg, [id |-> MaxId(lg) + 1, email |-> e])

\* ---- TaskInfo.status ----
\* `except Exception as e: task.status = TaskStatus.FAILED`
HandlerStatusNone == "running"
HandlerStatus == "failed"

\* ---- TaskInfo.progress ----
Progress(t, c, s, f) == [total |-> t, completed |-> c, success |-> s, failed |-> f]

-----------------------------------------------------------------------------
(* The job: session bookkeeping *)

\* BrowserController(...): a new object replaces the attempt's browser
NewSession ==
    /\ sess' = sess + 1
    /\ hasSession' = TRUE
    /\ res' = NoRes
    /\ stops' = 0
    /\ liveOthers' = IF hasSession /\ Live(res) THEN liveOthers + 1 ELSE liveOthers

\* a stop() call after which the attempt is over: the object is dropped, and
\* what it still holds open stays open
EndSession(r2) ==
    /\ res' = NoRes
    /\ stops' = stops + 1
    /\ hasSession' = FALSE
    /\ liveOthers' = IF Live(r2) THEN liveOthers + 1 ELSE liveOthers
    /\ UNCHANGED sess

\* a stop() call after which the attempt goes on (to the except handler)
KeepSession(r2) ==
    /\ res' = r2
    /\ stops' = stops + 1
    /\ UNCHANGED <<sess, hasSession, liveOthers>>

\* entering an account function: nothing of an earlier call is left
ResetCall ==
    /\ nodeFound' = FALSE
    /\ attemptsMade' = 0
    /\ regOk' = 0
    /\ registerCalls' = 0
    /\ loginTrue' = FALSE
    /\ loggedIn' = FALSE
    /\ stages' = <<>>
    /\ bindCalls' = 0
    /\ clearCalls' = 0
    /\ codeFrom' = "none"
    /\ codePoll' = 0
    /\ mailCreds' = NoCreds
    /\ mailToken' = FALSE
    /\ cookie_data' = EmptyBundle
    /\ ret' = "none"
    /\ attempt' = 0
    /\ hasSession' = FALSE
    /\ res' = NoRes
    /\ stops' = 0
    /\ liveOthers' = 0
    /\ sess' = 0

-----------------------------------------------------------------------------
(* The callers: job start and account loop *)

\* main_async, --register: the batch begins
CliRegisterStart ==
    /\ pc = "job_start" /\ kind = "cli_register"
    /\ pc' = "loop"
    /\ UNCHANGED <<unitVars, jobVars, i, attempt, localVars, mailVars, browserVars,
                   outVars, taskVars, histVars, findVars>>

\* run_register_task: task.status = RUNNING
ApiRegisterStart ==
    /\ pc = "job_start" /\ kind = "api_register"
    /\ status' = "running"
    /\ pc' = "loop"
    /\ UNCHANGED <<unitVars, jobVars, i, attempt, localVars, mailVars, browserVars,
                   outVars, progress, taskError, completedAt, results,
                   success_count, fail_count, histVars, findVars>>

\* run_refresh_task: task.status = RUNNING, then refresh_single_account(...)
ApiRefreshStart ==
    /\ pc = "job_start" /\ kind = "api_refresh"
    /\ status' = "running"
    /\ email' = CsvEmail(1)
    /\ password' = CsvPassword(1)
    /\ \E s \in SUBSET (1..MaxStale) : inbox' = s
    /\ ResetCall
    /\ pc' = "fn_entry"
    /\ UNCHANGED <<unitVars, jobVars, i, existing_accounts,
                   outVars, progress, taskError, completedAt, results,
                   success_count, fail_count, findVars>>

\* main_async, refresh mode: read the CSV, collect the emails of accounts.json
CliRefreshStart ==
    /\ pc = "job_start" /\ kind = "cli_refresh"
    /\ existing_accounts' = { store[k].email : k \in 1..Len(store) }
    /\ pc' = "loop"
    /\ UNCHANGED <<unitVars, jobVars, i, attempt, email, password, cookie_data, ret,
                   mailVars, browserVars, outVars, taskVars, histVars, findVars>>

\* run_register_task / main_async: top of `for i in range(count)`
RegisterLoop ==
    /\ pc = "loop" /\ kind \in RegisterKinds /\ i < count
    /\ progress' = IF kind = "api_register"
                   THEN Progress(count, i, success_count, fail_count)
                   ELSE progress
    /\ inbox' = {}
    /\ ResetCall
    /\ pc' = "fn_entry"
    /\ UNCHANGED <<unitVars, jobVars, i, email, password, existing_accounts,
                   outVars, status, taskError, completedAt, results,
                   success_count, fail_count, findVars>>

\* main_async: top of `for account in accounts`
RefreshLoop ==
    /\ pc = "loop" /\ kind = "cli_refresh" /\ i < count
    /\ IF accounts[i + 1] \in existing_accounts
       THEN /\ i' = i + 1
            /\ UNCHANGED <<pc, attempt, localVars, mailVars, browserVars, histVars>>
       ELSE /\ email' = accounts[i + 1]
            /\ password' = CsvPassword(i + 1)
            /\ \E s \in SUBSET (1..MaxStale) : inbox' = s
            /\ ResetCall
            /\ pc' = "fn_entry"
            /\ UNCHANGED <<i, existing_accounts>>
    /\ UNCHANGED <<unitVars, jobVars, outVars, taskVars, findVars>>

\* main_async: the loop is over
CliFinish ==
    /\ pc = "loop" /\ kind \in {"cli_register", "cli_refresh"} /\ i = count
    /\ pc' = "job_done"
    /\ UNCHANGED <<unitVars, jobVars, i, attempt, localVars, mailVars, browserVars,
                   outVars, taskVars, histVars, findVars>>

\* run_register_task: the loop is over
ApiRegisterFinish ==
    /\ pc = "loop" /\ kind = "api_register" /\ i >= count
    /\ status' = "success"
    /\ progress' = Progress(count, count, success_count, fail_count)
    /\ completedAt' = TRUE
    /\ pc' = "job_done"
    /\ UNCHANGED <<unitVars, jobVars, i, attempt, localVars, mailVars, browserVars,
                   outVars, taskError, results, success_count, fail_count,
                   histVars, findVars>>

-----------------------------------------------------------------------------
(* The account functions up to the first attempt *)

\* node = clash_manager.find_healthy_node()
FindEntry ==
    /\ pc = "fn_entry"
    /\ \/ kind \in RegisterKinds
       \/ kind = "api_refresh"
       \/ kind = "cli_refresh" /\ email # Blank /\ proxyNodeArg = NoNode
    /\ fpc = "idle"
    /\ fpc' = "start"
    /\ fgname' = NoGroup
    /\ findCalls' = findCalls + 1
    /\ pc' = "finding"
    /\ UNCHANGED <<proxies, latResp, reach, selected, fgroup, forder, fi,
                   fresult, probes, selectCalls, selectFailed, listFailed>>
    /\ UNCHANGED <<unitVars, jobVars, i, attempt, localVars, mailVars, browserVars,
                   outVars, taskVars, histVars>>

\* process_existing_account: `if not email: return False`
CliRefreshBlank ==
    /\ pc = "fn_entry" /\ kind = "cli_refresh" /\ email = Blank
    /\ ret' = "none"
    /\ pc' = "fn_return"
    /\ UNCHANGED <<unitVars, jobVars, i, attempt, email, password, cookie_data,
                   existing_accounts, mailVars, browserVars, outVars,
                   taskVars, histVars, findVars>>

\* process_existing_account with proxy_node: clash_manager.switch_node(...)
CliRefreshSwitch ==
    /\ pc = "fn_entry" /\ kind = "cli_refresh" /\ email # Blank
    /\ proxyNodeArg # NoNode
    /\ \E up \in BOOLEAN, out \in SelectOutcomes :
         LET px == IF up THEN proxies ELSE <<>>
             gs == { k \in 1..Len(px) :
                       px[k].type = "Selector" /\ proxyNodeArg \in Range(px[k].all) }
             g  == px[CHOOSE k \in gs : \A j \in gs : k <= j].name
         IN IF gs # {} /\ out # "exception"
            THEN /\ selected' = select_proxy(selected, g, proxyNodeArg, out)
                 /\ nodeFound' = TRUE
                 /\ pc' = "bind"
                 /\ ret' = ret
            ELSE /\ selected' = selected
                 /\ nodeFound' = FALSE
                 /\ ret' = "none"
                 /\ pc' = "fn_return"
    /\ UNCHANGED <<proxies, latResp, reach, fpc, fgname, fgroup, forder, fi,
                   fresult, probes, selectCalls, selectFailed, findCalls,
                   listFailed>>
    /\ UNCHANGED <<unitVars, jobVars, i, attempt, email, password, cookie_data,
                   existing_accounts, mailVars, browserVars, outVars, taskVars,
                   attemptsMade, regOk, loginTrue, loggedIn,
                   stages>>

\* `if not node:` after node = clash_manager.find_healthy_node()
NotNodeNever(node) == FALSE
NotNode(node) == node = NoNode

\* find_healthy_node returned: `if not node: return None`
FindReturn ==
    /\ pc = "finding" /\ fpc = "done"
    /\ fpc' = "idle"
    /\ forder' = <<>>
    /\ fi' = 0
    /\ fgroup' = NoGroup
    /\ probes' = [n \in Nodes |-> 0]
    /\ selectCalls' = {}
    /\ selectFailed' = FALSE
    /\ IF NotNode(fresult)
       THEN /\ ret' = "none"
            /\ pc' = "fn_return"
            /\ UNCHANGED nodeFound
       ELSE /\ nodeFound' = TRUE
            /\ ret' = ret
            /\ pc' = CASE kind \in RegisterKinds -> "attempt"
                       [] kind = "api_refresh" -> "login_existing"
                       [] OTHER -> "bind"
    /\ UNCHANGED <<proxies, latResp, reach, selected, fgname, fresult, findCalls,
                   listFailed>>
    /\ UNCHANGED <<unitVars, jobVars, i, attempt, email, password, cookie_data,
                   existing_accounts, mailVars, browserVars, outVars, taskVars,
                   attemptsMade, regOk, loginTrue, loggedIn,
                   stages>>

\* refresh_single_account: MailClient(...); mail_client.login_existing(email,
\* password), which binds the credentials and calls login()
ApiLoginExisting ==
    /\ pc = "login_existing"
    /\ mailCreds' = BoundCreds(email, password)
    /\ bindCalls' = bindCalls + 1
    /\ \E ok \in BOOLEAN :
         /\ mailToken' = ok
         /\ IF ok THEN pc' = "attempt" /\ ret' = ret
                  ELSE pc' = "fn_return" /\ ret' = "none"
    /\ UNCHANGED <<unitVars, jobVars, i, attempt, email, password, cookie_data,
                   existing_accounts, registerCalls, inbox, clearCalls,
                   codeFrom, codePoll, browserVars, outVars, taskVars, histVars,
                   findVars>>

\* process_existing_account: MailClient(...); mail_client.email = email;
\* mail_client.password = password
CliBind ==
    /\ pc = "bind"
    /\ mailCreds' = BoundCreds(email, password)
    /\ bindCalls' = bindCalls + 1
    /\ mailToken' = FALSE
    /\ pc' = "attempt"
    /\ UNCHANGED <<unitVars, jobVars, i, attempt, localVars, registerCalls,
                   inbox, clearCalls, codeFrom, codePoll, browserVars, outVars, taskVars,
                   histVars, findVars>>

-----------------------------------------------------------------------------
(* One attempt *)

\* register_new_account / register_single_account, top of the attempt loop:
\* MailClient(...); mail_client.register(); BrowserController(...)
RegisterAttempt ==
    /\ pc = "attempt" /\ kind \in RegisterKinds
    /\ attemptsMade' = attemptsMade + 1
    /\ registerCalls' = registerCalls + 1
    /\ mailToken' = FALSE
    /\ loggedIn' = FALSE
    /\ stages' = <<>>
    /\ codeFrom' = "none"
    /\ codePoll' = 0
    /\ cookie_data' = EmptyBundle
    /\ \E ok \in BOOLEAN :
         IF ok
         THEN /\ mailCreds' = BoundCreds(FreshEmail(i, attempt), FreshPassword(i, attempt))
              /\ email' = FreshEmail(i, attempt)
              /\ password' = FreshPassword(i, attempt)
              /\ regOk' = regOk + 1
              /\ NewSession
              /\ pc' = "start"
         ELSE /\ mailCreds' = BoundCreds(FreshEmail(i, attempt), FreshPassword(i, attempt))
              /\ pc' = "continue"
              /\ UNCHANGED <<email, password, regOk, browserVars>>
    /\ UNCHANGED <<unitVars, jobVars, i, attempt, ret, existing_accounts, bindCalls,
                   inbox, clearCalls, outVars, taskVars, nodeFound,
                   loginTrue, findVars>>

\* refresh_single_account / process_existing_account: BrowserController(...)
RefreshAttempt ==
    /\ pc = "attempt" /\ kind \in RefreshKinds
    /\ attemptsMade' = attemptsMade + 1
    /\ loggedIn' = FALSE
    /\ stages' = <<>>
    /\ NewSession
    /\ pc' = "start"
    /\ UNCHANGED <<unitVars, jobVars, i, attempt, localVars, mailVars, outVars, taskVars,
                   nodeFound, regOk, loginTrue, findVars>>

\* await browser.start()
BrowserStart ==
    /\ pc = "start"
    /\ \E o \in StartOutcomes :
         /\ res' = StartRes(o.stage, o.persistent)
         /\ pc' = IF o.stage # "ok" THEN ExceptPc(kind)
                  ELSE IF kind = "cli_refresh" THEN "clear_inbox" ELSE "login"
    /\ UNCHANGED <<sess, hasSession, stops, liveOthers>>
    /\ UNCHANGED <<unitVars, jobVars, i, attempt, localVars, mailVars, outVars, taskVars,
                   histVars, findVars>>

\* process_existing_account: mail_client.clear_inbox()
ClearInbox ==
    /\ pc = "clear_inbox"
    /\ clearCalls' = clearCalls + 1
    /\ \E auth \in (IF mailToken THEN {TRUE} ELSE BOOLEAN) :
         /\ mailToken' = auth
         /\ IF auth
            THEN \E listOk \in BOOLEAN, del \in SUBSET inbox :
                   inbox' = IF listOk THEN inbox \ del ELSE inbox
            ELSE inbox' = inbox
    /\ pc' = "login"
    /\ UNCHANGED <<unitVars, jobVars, i, attempt, localVars, mailCreds, registerCalls,
                   bindCalls, codeFrom, codePoll, browserVars, outVars,
                   taskVars, histVars, findVars>>

\* `if not await browser.login(...)`, `if not code`, ...: a step's result
\* decides whether the attempt goes on to the next step
StagePassedAlways(r) == TRUE
StagePassed(r) == r

\* await browser.login(email, password)
BrowserLogin ==
    /\ pc = "login"
    /\ loggedIn' = TRUE
    /\ \E ok \in BOOLEAN :
         /\ loginTrue' = (loginTrue \/ ok)
         /\ stages' = Append(stages, <<"login", ok>>)
         /\ pc' = IF StagePassed(ok) THEN "wait_code" ELSE StepFailPc(kind)
    /\ UNCHANGED <<unitVars, jobVars, i, attempt, localVars, mailVars, browserVars,
                   outVars, taskVars, nodeFound, attemptsMade, regOk, findVars>>

\* mail_client.wait_for_code(timeout=30): authenticates if it has no token,
\* then polls; a poll reads the first listed message only, and the code is
\* returned by the first poll that finds one.
WaitForCode ==
    /\ pc = "wait_code"
    /\ \E auth \in (IF mailToken THEN {TRUE} ELSE BOOLEAN),
          src \in {"none", "fresh"} \cup (IF inbox # {} THEN {"stale"} ELSE {}),
          poll \in 1..MaxCodePoll :
         LET code == auth /\ src # "none" IN
         /\ mailToken' = auth
         /\ codeFrom' = IF code THEN src ELSE "none"
         /\ codePoll' = IF code THEN poll ELSE 0
         /\ stages' = Append(stages, <<"wait_for_code", code>>)
         /\ pc' = IF StagePassed(code) THEN "enter_code" ELSE StepFailPc(kind)
    /\ UNCHANGED <<unitVars, jobVars, i, attempt, localVars, mailCreds, registerCalls,
                   bindCalls, inbox, clearCalls, browserVars, outVars, taskVars,
                   nodeFound, attemptsMade, regOk, loginTrue, loggedIn, findVars>>

\* await browser.enter_verification_code(code)
EnterCode ==
    /\ pc = "enter_code"
    /\ \E ok \in BOOLEAN :
         /\ stages' = Append(stages, <<"enter_verification_code", ok>>)
         /\ pc' = IF StagePassed(ok) THEN "wait_complete" ELSE StepFailPc(kind)
    /\ UNCHANGED <<unitVars, jobVars, i, attempt, localVars, mailVars, browserVars,
                   outVars, taskVars, nodeFound, attemptsMade, regOk, loginTrue,
                   loggedIn, findVars>>

\* await browser.wait_for_login_complete(timeout=60)
WaitComplete ==
    /\ pc = "wait_complete"
    /\ \E ok \in BOOLEAN :
         /\ stages' = Append(stages, <<"wait_for_login_complete", ok>>)
         /\ pc' = IF StagePassed(ok) THEN "extract" ELSE StepFailPc(kind)
    /\ UNCHANGED <<unitVars, jobVars, i, attempt, localVars, mailVars, browserVars,
                   outVars, taskVars, nodeFound, attemptsMade, regOk, loginTrue,
                   loggedIn, findVars>>

\* cookie_data = await browser.extract_cookies(); the check of secure_c_ses;
\* cookie_data["email"] = email (and ["password"] = password)
ExtractCookies ==
    /\ pc = "extract"
    /\ \E v \in {"", "V"} :
         /\ stages' = Append(stages, <<"extract_cookies", ~ExtractFailed(Bundle(v))>>)
         /\ IF ExtractFailed(Bundle(v))
            THEN /\ cookie_data' = Bundle(v)
                 /\ pc' = StepFailPc(kind)
                 /\ ret' = ret
            ELSE /\ cookie_data' =
                      MergeIdentity(Bundle(v), email,
                                    IF kind = "cli_refresh" THEN Blank ELSE password)
                 /\ pc' = CASE kind \in RegisterKinds -> "ok_stop"
                            [] kind = "api_refresh" -> "finally_stop"
                            [] OTHER -> "save"
                 /\ ret' = IF kind = "api_refresh" THEN "value" ELSE ret
    /\ UNCHANGED <<unitVars, jobVars, i, attempt, email, password, existing_accounts,
                   mailVars, browserVars, outVars, taskVars, nodeFound,
                   attemptsMade, regOk, loginTrue, loggedIn, findVars>>

\* process_existing_account: update_accounts_json(...) inside the try block
CliRefreshSave ==
    /\ pc = "save"
    /\ \E d \in Today :
         IF UpdateRaises(d)
         THEN store' = store /\ ret' = "none"
         ELSE store' = update_accounts_json(store, email, cookie_data)
              /\ ret' = "value"
    /\ pc' = "finally_stop"
    /\ UNCHANGED <<unitVars, jobVars, i, attempt, email, password, cookie_data,
                   existing_accounts, mailVars, browserVars, ledger, taskVars,
                   histVars, findVars>>

\* register functions: `await browser.stop(); continue` after a failed step
FailStop ==
    /\ pc = "fail_stop"
    /\ \E o \in StopOutcomes(res) :
         IF StopRaised(o)
         THEN KeepSession(StopRes(res, o)) /\ pc' = "handler_stop"
         ELSE EndSession(StopRes(res, o)) /\ pc' = "continue"
    /\ UNCHANGED <<unitVars, jobVars, i, attempt, localVars, mailVars, outVars, taskVars,
                   histVars, findVars>>

\* register functions: `await browser.stop(); return cookie_data`
OkStop ==
    /\ pc = "ok_stop"
    /\ \E o \in StopOutcomes(res) :
         IF StopRaised(o)
         THEN KeepSession(StopRes(res, o)) /\ pc' = "handler_stop" /\ ret' = ret
         ELSE EndSession(StopRes(res, o)) /\ pc' = "fn_return" /\ ret' = "value"
    /\ UNCHANGED <<unitVars, jobVars, i, attempt, email, password, cookie_data,
                   existing_accounts, mailVars, outVars, taskVars, histVars,
                   findVars>>

\* register functions: `except Exception: await browser.stop(); continue`
HandlerStop ==
    /\ pc = "handler_stop"
    /\ \E o \in StopOutcomes(res) :
         /\ EndSession(StopRes(res, o))
         /\ pc' = IF StopRaised(o) THEN "fn_raised" ELSE "continue"
    /\ UNCHANGED <<unitVars, jobVars, i, attempt, localVars, mailVars, outVars, taskVars,
                   histVars, findVars>>

\* refresh functions: `finally: await browser.stop()`, then the return
FinallyStop ==
    /\ pc = "finally_stop"
    /\ \E o \in StopOutcomes(res) :
         /\ EndSession(StopRes(res, o))
         /\ IF StopRaised(o)
            THEN pc' = "fn_raised" /\ attempt' = attempt
            ELSE IF ret = "none" /\ attempt + 1 < MaxAttempts(kind)
                 THEN pc' = "attempt" /\ attempt' = attempt + 1
                 ELSE pc' = "fn_return" /\ attempt' = attempt
    /\ UNCHANGED <<unitVars, jobVars, i, localVars, mailVars, outVars, taskVars,
                   histVars, findVars>>

\* where `continue` takes a register function: the top of the attempt loop,
\* which lies after the find_healthy_node call
RetryFromEntry == "fn_entry"
RetryFrom == "attempt"

\* register functions: `continue`, and `return None` when the loop is over
Continue ==
    /\ pc = "continue"
    /\ IF attempt + 1 < MaxAttempts(kind)
       THEN attempt' = attempt + 1 /\ pc' = RetryFrom /\ ret' = ret
       ELSE attempt' = attempt /\ pc' = "fn_return" /\ ret' = "none"
    /\ UNCHANGED <<unitVars, jobVars, i, email, password, cookie_data, existing_accounts,
                   mailVars, browserVars, outVars, taskVars, histVars, findVars>>

-----------------------------------------------------------------------------
(* The callers: what they do with the account function's outcome *)

\* main_async, --register: `if result: update_accounts_json; append_to_csv`
CliRegisterAfter ==
    /\ pc \in {"fn_return", "fn_raised"} /\ kind = "cli_register"
    /\ IF pc = "fn_raised"
       THEN /\ pc' = "job_raised"
            /\ UNCHANGED <<i, store, ledger, success_count, fail_count>>
       ELSE IF ret = "value"
       THEN \E d \in Today :
              IF UpdateRaises(d)
              THEN /\ pc' = "job_raised"
                   /\ UNCHANGED <<i, store, ledger, success_count, fail_count>>
              ELSE /\ store' = update_accounts_json(store, cookie_data.email, cookie_data)
                   /\ \E csvOk \in BOOLEAN :
                        ledger' = IF csvOk
                                  THEN append_to_csv(ledger, cookie_data.email)
                                  ELSE ledger
                   /\ success_count' = success_count + 1
                   /\ i' = i + 1
                   /\ pc' = "loop"
                   /\ UNCHANGED fail_count
       ELSE /\ fail_count' = fail_count + 1
            /\ i' = i + 1
            /\ pc' = "loop"
            /\ UNCHANGED <<store, ledger, success_count>>
    /\ UNCHANGED <<unitVars, jobVars, attempt, localVars, mailVars, browserVars, status,
                   progress, taskError, completedAt, results, histVars, findVars>>

\* run_register_task: the same, inside `try ... except Exception: FAILED`
ApiRegisterAfter ==
    /\ pc \in {"fn_return", "fn_raised"} /\ kind = "api_register"
    /\ IF pc = "fn_raised"
       THEN /\ status' = HandlerStatus /\ taskError' = TRUE /\ completedAt' = TRUE
            /\ pc' = "job_done"
            /\ UNCHANGED <<i, store, ledger, results, success_count, fail_count>>
       ELSE IF ret = "value"
       THEN /\ results' = Append(results, cookie_data.email)
            /\ success_count' = success_count + 1
            /\ \E d \in Today :
                 IF UpdateRaises(d)
                 THEN /\ status' = HandlerStatus /\ taskError' = TRUE
                      /\ completedAt' = TRUE
                      /\ pc' = "job_done"
                      /\ UNCHANGED <<i, store, ledger>>
                 ELSE /\ store' = update_accounts_json(store, cookie_data.email, cookie_data)
                      /\ \E csvOk \in BOOLEAN :
                           ledger' = IF csvOk
                                     THEN append_to_csv(ledger, cookie_data.email)
                                     ELSE ledger
                      /\ i' = i + 1
                      /\ pc' = "loop"
                      /\ UNCHANGED <<status, taskError, completedAt>>
            /\ UNCHANGED fail_count
       ELSE /\ fail_count' = fail_count + 1
            /\ i' = i + 1
            /\ pc' = "loop"
            /\ UNCHANGED <<store, ledger, results, success_count, status,
                           taskError, completedAt>>
    /\ UNCHANGED <<unitVars, jobVars, attempt, localVars, mailVars, browserVars,
                   progress, histVars, findVars>>

\* run_refresh_task: SUCCESS and update_accounts_json, or FAILED
ApiRefreshAfter ==
    /\ pc \in {"fn_return", "fn_raised"} /\ kind = "api_refresh"
    /\ IF pc = "fn_return" /\ ret = "value"
       THEN \E d \in Today :
              IF UpdateRaises(d)
              THEN status' = HandlerStatus /\ taskError' = TRUE /\ store' = store
              ELSE /\ status' = "success"
                   /\ taskError' = taskError
                   /\ store' = update_accounts_json(store, email, cookie_data)
       ELSE /\ status' = IF pc = "fn_raised" THEN HandlerStatus ELSE "failed"
            /\ taskError' = TRUE /\ store' = store
    /\ completedAt' = TRUE
    /\ pc' = "job_done"
    /\ UNCHANGED <<unitVars, jobVars, i, attempt, localVars, mailVars, browserVars,
                   ledger, progress, results, success_count, fail_count,
                   histVars, findVars>>

\* main_async, refresh mode: count the outcome; an exception is caught
CliRefreshAfter ==
    /\ pc \in {"fn_return", "fn_raised"} /\ kind = "cli_refresh"
    /\ IF pc = "fn_return" /\ ret = "value"
       THEN success_count' = success_count + 1 /\ fail_count' = fail_count
       ELSE fail_count' = fail_count + 1 /\ success_count' = success_count
    /\ i' = i + 1
    /\ pc' = "loop"
    /\ UNCHANGED <<unitVars, jobVars, attempt, localVars, mailVars, browserVars, outVars,
                   status, progress, taskError, completedAt, results,
                   histVars, findVars>>

-----------------------------------------------------------------------------
(* One MailClient on its own: clear_inbox and wait_for_code in detail *)

MaxMsgs == 2           \* messages the inbox holds or receives

NoCode == <<>>         \* Python None for a code
NoMsg == [id |-> 0, code |-> NoCode]

\* A message: its id, and the code _extract_code finds in its text (or None)
Msg(k, hasCode) == [id |-> k, code |-> IF hasCode THEN <<"code", k>> ELSE NoCode]
Msgs == { Msg(k, c) : k \in 1..MaxMsgs, c \in BOOLEAN }

Ids(box) == { box[k].id : k \in 1..Len(box) }

\* Inboxes: up to MaxMsgs messages with different ids, newest first
Boxes ==
    { <<>> } \cup
    UNION { { b \in [1..n -> Msgs] : \A a, c \in 1..n : a < c => b[a].id > b[c].id }
            : n \in 1..MaxMsgs }

\* wait_for_code(timeout): the callers pass 30
Timeouts == {6, 30}
\* `time.sleep(3)` at the end of a pass of the polling loop
PollSleep == 3
\* the time the requests of one pass may take (each has timeout=10)
PollDurations == {0, 10}

\* MailClient.login: POST /token; 200 stores a new token
LoginOutcomes == {"ok", "refused", "exception"}

\* GET /messages
ListOutcomes == {"ok", "unauthorized", "error", "exception"}
\* DELETE /messages/<id>: the message is deleted, the answer is an error
\* status (not looked at), or the request raises
DeleteOutcomes == {"deleted", "refused", "exception"}

\* clear_inbox: the requests made inside a `try` whose handler goes on:
\* login's POST (login's own try), the GET (outer try), each DELETE (inner)
TrySites == {"login", "list", "delete"}

\* the requests of one clear_inbox call that raise
RaisedSites(hadToken, tok, lo, ls, delExc) ==
    (IF ~hadToken /\ lo = "exception" THEN {"login"} ELSE {}) \cup
    (IF tok # 0 /\ ls = "exception" THEN {"list"} ELSE {}) \cup
    (IF tok # 0 /\ ls = "ok" /\ delExc THEN {"delete"} ELSE {})

\* clear_inbox: `except: pass` around each DELETE, so the loop goes on
DeleteAbortsOnException(o) == o = "exception"
DeleteAborts(o) == FALSE

\* clear_inbox, `for msg in msgs`: the ids a DELETE was sent for, the ids
\* deleted at the provider, and deleted_count
RECURSIVE ClearLoop(_, _, _, _)
ClearLoop(msgs, k, del, acc) ==
    IF k > Len(msgs) THEN acc
    ELSE LET id  == msgs[k].id
             o   == del[id]
             now == [tried   |-> acc.tried \cup {id},
                     gone    |-> IF o = "deleted" THEN acc.gone \cup {id} ELSE acc.gone,
                     count   |-> IF o = "exception" THEN acc.count ELSE acc.count + 1]
         IN IF DeleteAborts(o) THEN now ELSE ClearLoop(msgs, k + 1, del, now)

Remaining(box, gone) == SelectSeq(box, LAMBDA m : m.id \notin gone)

\* wait_for_code: `msgs[0]`, the message whose detail is fetched
LastListed(msgs) == msgs[Len(msgs)]
FirstListed(msgs) == msgs[1]

\* the token in use was answered 401 before this request
Stale(tok, seen) == IF tok \in seen THEN 1 ELSE 0

\* `if not self.token: if not self.login(): return ...`
\* the token after the lazy login of a call, 0 when the login failed
LazyLogin(tok, issued, out) ==
    IF tok # 0 THEN tok ELSE IF out = "ok" THEN issued + 1 ELSE 0

\* clear_inbox()
ClearInboxCall ==
    /\ mpc = "ready"
    /\ \E lo \in LoginOutcomes, ls \in ListOutcomes,
          del \in [Ids(mbox) -> DeleteOutcomes] :
         LET tok == LazyLogin(mtoken, mtokens, lo)
             r   == ClearLoop(mbox, 1, del, [tried |-> {}, gone |-> {}, count |-> 0])
             exc == RaisedSites(mtoken # 0, tok, lo, ls,
                                \E id \in r.tried : del[id] = "exception")
         IN /\ mtoken' = tok
            /\ mtokens' = IF tok # mtoken THEN tok ELSE mtokens
            /\ mraised' = (exc \ TrySites # {})
            /\ IF tok = 0
               THEN /\ mret' = 0
                    /\ mlisted' = {} /\ mtried' = {}
                    /\ UNCHANGED <<mbox, m401, stalePolls>>
               ELSE /\ stalePolls' = stalePolls + Stale(tok, m401)
                    /\ m401' = IF ls = "unauthorized" THEN m401 \cup {tok} ELSE m401
                    /\ IF ls = "ok"
                       THEN /\ mlisted' = Ids(mbox)
                            /\ mtried' = r.tried
                            /\ mret' = r.count
                            /\ mbox' = Remaining(mbox, r.gone)
                       ELSE /\ mlisted' = {} /\ mtried' = {}
                            /\ mret' = 0
                            /\ UNCHANGED mbox
    /\ mpc' = "cleared"
    /\ UNCHANGED <<wtimeout, welapsed, wpolls, wfirst, wsawCode>>
    /\ UNCHANGED restVars

\* wait_for_code(timeout), up to `start_time = time.time()`
WaitForCodeCall ==
    /\ mpc \in {"ready", "cleared"}
    /\ \E lo \in LoginOutcomes :
         LET tok == LazyLogin(mtoken, mtokens, lo)
         IN /\ mtoken' = tok
            /\ mtokens' = IF tok # mtoken THEN tok ELSE mtokens
            /\ IF tok = 0
               THEN mpc' = "done"
               ELSE mpc' = "poll"
    /\ mret' = NoCode
    /\ mraised' = FALSE
    /\ welapsed' = 0
    /\ wpolls' = 0
    /\ wfirst' = NoMsg
    /\ wsawCode' = FALSE
    /\ UNCHANGED <<m401, stalePolls, mbox, mlisted, mtried, wtimeout>>
    /\ UNCHANGED restVars

\* wait_for_code: one pass of `while (time.time() - start_time) < timeout`
WaitForCodePoll ==
    /\ mpc = "poll"
    /\ welapsed < wtimeout
    /\ wpolls' = wpolls + 1
    /\ stalePolls' = stalePolls + Stale(mtoken, m401)
    /\ \E ls \in ListOutcomes, detailOk \in BOOLEAN, d \in PollDurations :
         LET listed == IF ls = "ok" THEN mbox ELSE <<>>
             code   == IF listed # <<>> /\ detailOk
                       THEN FirstListed(listed).code ELSE NoCode
         IN /\ m401' = IF ls = "unauthorized" THEN m401 \cup {mtoken} ELSE m401
            /\ wfirst' = IF listed # <<>> THEN listed[1] ELSE NoMsg
            /\ wsawCode' = (wsawCode \/ (listed # <<>> /\ detailOk
                                          /\ listed[1].code # NoCode))
            /\ IF code # NoCode
               THEN /\ mret' = code
                    /\ mpc' = "done"
                    /\ welapsed' = welapsed + d
               ELSE /\ welapsed' = welapsed + d + PollSleep
                    /\ UNCHANGED <<mret, mpc>>
    /\ UNCHANGED <<mtoken, mtokens, mbox, mlisted, mtried, mraised, wtimeout>>
    /\ UNCHANGED restVars

\* wait_for_code: the loop condition fails; `return None`
WaitForCodeTimeout ==
    /\ mpc = "poll"
    /\ welapsed >= wtimeout
    /\ mret' = NoCode
    /\ mpc' = "done"
    /\ UNCHANGED <<mtoken, mtokens, m401, stalePolls, mbox, mlisted, mtried,
                   mraised, wtimeout, welapsed, wpolls, wfirst, wsawCode>>
    /\ UNCHANGED restVars

\* the provider delivers a message while the client waits
MessageArrives ==
    /\ mpc = "poll"
    /\ Len(mbox) < MaxMsgs
    /\ \A m \in Ids(mbox) : m < MaxMsgs
    /\ \E c \in BOOLEAN :
         LET k == IF mbox = <<>> THEN 1 ELSE mbox[1].id + 1
         IN mbox' = <<Msg(k, c)>> \o mbox
    /\ UNCHANGED <<mpc, mtoken, mtokens, m401, stalePolls, mlisted, mtried, mret,
                   mraised, wtimeout, welapsed, wpolls, wfirst, wsawCode>>
    /\ UNCHANGED restVars

\* no MailClient is looked at on its own
MailIdle ==
    /\ mpc = "idle"
    /\ mtoken = 0 /\ mtokens = 0 /\ m401 = {} /\ stalePolls = 0
    /\ mbox = <<>> /\ mlisted = {} /\ mtried = {}
    /\ mret = NoCode /\ mraised = FALSE
    /\ wtimeout = 0 /\ welapsed = 0 /\ wpolls = 0
    /\ wfirst = NoMsg /\ wsawCode = FALSE

\* a client bound to an identity, with or without a token, and an inbox
MailReady ==
    /\ mpc = "ready"
    /\ mtoken \in {0, 1} /\ mtokens = mtoken
    /\ m401 = {} /\ stalePolls = 0
    /\ mbox \in Boxes
    /\ mlisted = {} /\ mtried = {}
    /\ mret = NoCode /\ mraised = FALSE
    /\ wtimeout \in Timeouts
    /\ welapsed = 0 /\ wpolls = 0
    /\ wfirst = NoMsg /\ wsawCode = FALSE

-----------------------------------------------------------------------------
(* MailClient._extract_code on its own *)

MaxBody == 5           \* pieces of a message body

\* A body is a sequence of pieces: words (maximal runs of word characters),
\* a colon, a run of whitespace, another character.
LabelWords == {"pin", "code", "verification"}
\* words of 4 to 8 characters of [A-Za-z0-9]
TokenWords == {"code", "AB12", "123456"}
\* words of exactly six digits
SixDigitWords == {"123456"}
Words == LabelWords \cup TokenWords \cup {"ab", "123456789"}
Colons == {":"}
Spaces == {" "}
Pieces == Words \cup Colons \cup Spaces \cup {"."}

\* two words side by side would be one word
WellFormed(b) == \A k \in 1..(Len(b) - 1) : ~(b[k] \in Words /\ b[k + 1] \in Words)

Bodies == { b \in UNION { [1..n -> Pieces] : n \in 0..MaxBody } : WellFormed(b) }

NotFound == 0          \* Python None, as a position
NotCalled == -1

\* `\s*([A-Za-z0-9]{4,8})\b` tried at piece k: the position of the group
RECURSIVE TokenAt(_, _)
TokenAt(b, k) ==
    IF k > Len(b) THEN NotFound
    ELSE IF b[k] \in Spaces THEN TokenAt(b, k + 1)
    ELSE IF b[k] \in TokenWords THEN k
    ELSE NotFound

\* `.*?[:：]` from piece k on: the nearest colon the rest matches after
RECURSIVE FromLabel(_, _)
FromLabel(b, k) ==
    IF k > Len(b) THEN NotFound
    ELSE IF b[k] \in Colons /\ TokenAt(b, k + 1) # NotFound THEN TokenAt(b, k + 1)
    ELSE FromLabel(b, k + 1)

\* re.search(pattern_context, text): the leftmost label the pattern matches at
RECURSIVE SearchContext(_, _)
SearchContext(b, s) ==
    IF s > Len(b) THEN NotFound
    ELSE IF b[s] \in LabelWords /\ FromLabel(b, s + 1) # NotFound
         THEN FromLabel(b, s + 1)
    ELSE SearchContext(b, s + 1)

\* re.findall(r'\b\d{6}\b', text)[0]
RECURSIVE FirstDigits(_, _)
FirstDigits(b, s) ==
    IF s > Len(b) THEN NotFound
    ELSE IF b[s] \in SixDigitWords THEN s
    ELSE FirstDigits(b, s + 1)

ExtractCodeDigitsFirst(b) ==
    IF FirstDigits(b, 1) # NotFound THEN FirstDigits(b, 1)
    ELSE SearchContext(b, 1)

\* _extract_code(text): the position in the body of the code returned
ExtractCode(b) ==
    IF SearchContext(b, 1) # NotFound THEN SearchContext(b, 1)
    ELSE FirstDigits(b, 1)

ExtractCodeCall ==
    /\ extracted = NotCalled
    /\ text # <<>>
    /\ extracted' = ExtractCode(text)
    /\ UNCHANGED <<text, restExtract>>

\* _extract_code(""): nothing to search
ExtractCodeEmpty ==
    /\ extracted = NotCalled
    /\ text = <<>>
    /\ extracted' = NotFound
    /\ UNCHANGED <<text, restExtract>>

ExtractIdle == text = <<>> /\ extracted = NotFound

-----------------------------------------------------------------------------
(* BrowserController.extract_cookies on its own *)

MaxCookies == 2        \* cookies in the browser context

PrimaryName == "__Secure-C_SES"
SecondaryName == "__Host-C_OSES"
CookieNames == {PrimaryName, SecondaryName, "NID"}
CookieTexts == {"", "V"}

\* A time is <<seconds, tenths>>. `expires` of a cookie: the key is absent,
\* it is -1 (what the browser reports for a cookie without expiry), or it
\* is the time the cookie expires at.
NoExpires == <<>>
SessionMarker == <<-1, 0>>
Expiries == {NoExpires, SessionMarker, <<100000, 0>>, <<100000, 5>>}

Cookies == [name : CookieNames, value : CookieTexts, expires : Expiries]
Jars == UNION { [1..n -> Cookies] : n \in 0..MaxCookies }
\* self._page.url after the wait: holds /cid/<id> and csesidx=<n>, holds
\* neither after all 15 polls, or cannot be read
UrlStates == {"target", "elsewhere", "unreadable"}

Clocks == {50000}      \* datetime.now(), in seconds

\* readable: `await self._context.cookies()` returns the cookies (it raises
\* otherwise); negativeOk: datetime.fromtimestamp accepts a negative time
Contexts ==
    { c \in [url : UrlStates, readable : BOOLEAN, cookies : Jars, now : Clocks,
             negativeOk : BOOLEAN] : ~c.readable => c.cookies = <<>> }

HalfDay == 43200
Week == 7 * 24 * 3600

\* strftime("%Y-%m-%d %H:%M:%S"): the text of a time, to the second
NoText == <<>>
Format(t) == <<"at", t[1]>>

\* `if expiry:`
Truthy(e) == e # NoExpires /\ e # <<0, 0>>

EmptyResult ==
    [secure_c_ses |-> "", csesidx |-> "", config_id |-> "", host_c_oses |-> "",
     expires_at |-> NoText]

\* the wait for the URL: after the 15th poll the function goes on
OffTargetAbortsAlways(url) == url # "target"
OffTargetAborts(url) == FALSE

\* `for cookie in cookies`: the dict after the loop and whether
\* datetime.fromtimestamp raised (it does for a negative time on platforms
\* whose C library refuses one)
RECURSIVE CookieLoop(_, _, _, _)
CookieLoop(jar, k, acc, negativeOk) ==
    IF k > Len(jar) THEN [dict |-> acc, raised |-> FALSE]
    ELSE LET c == jar[k]
         IN IF c.name = PrimaryName
            THEN LET a1 == [acc EXCEPT !.secure_c_ses = c.value]
                 IN IF Truthy(c.expires)
                    THEN IF c.expires[1] - HalfDay < 0 /\ ~negativeOk
                         THEN [dict |-> a1, raised |-> TRUE]
                         ELSE CookieLoop(jar, k + 1,
                                [a1 EXCEPT !.expires_at =
                                    Format(<<c.expires[1] - HalfDay, c.expires[2]>>)],
                                negativeOk)
                    ELSE CookieLoop(jar, k + 1, a1, negativeOk)
            ELSE IF c.name = SecondaryName
            THEN CookieLoop(jar, k + 1, [acc EXCEPT !.host_c_oses = c.value],
                            negativeOk)
            ELSE CookieLoop(jar, k + 1, acc, negativeOk)

\* extract_cookies(): the dict returned
ExtractCookiesResult(c) ==
    IF c.url = "unreadable" \/ OffTargetAborts(c.url) THEN EmptyResult
    ELSE LET r0 == IF c.url = "target"
                   THEN [EmptyResult EXCEPT !.config_id = "C1", !.csesidx = "S1"]
                   ELSE EmptyResult
         IN IF ~c.readable THEN r0
            ELSE LET l == CookieLoop(c.cookies, 1, r0, c.negativeOk)
                 IN IF l.raised THEN l.dict
                    ELSE IF l.dict.expires_at = NoText
                    THEN [l.dict EXCEPT !.expires_at = Format(<<c.now + Week, 0>>)]
                    ELSE l.dict

\* the exceptions `except Exception` does not catch leave the function
HandlerCatches == {"url", "cookies", "fromtimestamp"}

ExtractCookiesCall ==
    /\ cpc = "ready"
    /\ cpc' = "done"
    /\ result' = ExtractCookiesResult(ctx)
    /\ LET exc == (IF ctx.url = "unreadable" THEN {"url"} ELSE {}) \cup
                  (IF ctx.url # "unreadable" /\ ~ctx.readable
                   THEN {"cookies"} ELSE {}) \cup
                  (IF ctx.url # "unreadable"
                      /\ CookieLoop(ctx.cookies, 1, EmptyResult, ctx.negativeOk).raised
                   THEN {"fromtimestamp"} ELSE {})
       IN eraised' = (exc \ HandlerCatches # {})
    /\ UNCHANGED <<ctx, restCookies>>

NoContext ==
    [url |-> "elsewhere", readable |-> FALSE, cookies |-> <<>>, now |-> 0,
     negativeOk |-> TRUE]
CookieIdle ==
    cpc = "idle" /\ ctx = NoContext /\ result = EmptyResult /\ eraised = FALSE

-----------------------------------------------------------------------------
(* update_accounts_json on its own *)

MaxWrites == 4         \* update_accounts_json calls
MaxEmails == 2         \* emails written

StoreEmails == { CsvEmail(k) : k \in 1..MaxEmails }
StoreDays == { d \in Today : d.monthLen = 30 /\ d.day \in {1, 25} }

\* Dates count from the month of the call: its month is 0, the next one 1.
\* `datetime.now().replace(day=datetime.now().day + 7)`, formatted
StoreExpires(d) == [month |-> 0, day |-> d.day + 7]

\* The expires_at of the bundle passed in, as extract_cookies sets it: the
\* cookie's expiry less 12 hours (here: the next day), or
\* `datetime.now() + timedelta(days=7)` when the cookie has none
DefaultExpires(d) ==
    IF d.day + 7 <= d.monthLen THEN [month |-> 0, day |-> d.day + 7]
    ELSE [month |-> 1, day |-> d.day + 7 - d.monthLen]
BundleExpires(d) == {[month |-> 0, day |-> d.day + 1], DefaultExpires(d)}

\* the record written for email e at time now, on the day d
StoreRecord(accts, e, v, now, d) ==
    LET idx == StoreIndex(accts, e)
    IN [id |-> IF idx = 0 THEN Len(accts) + 1 ELSE accts[idx].id,
        email |-> e,
        secure_c_ses |-> v,
        expires_at |-> StoreExpires(d),
        created_at |-> IF idx = 0 THEN now ELSE accts[idx].created_at,
        updated_at |-> now]

\* `accounts[existing_idx] = record` or `accounts.append(record)`
UpsertAppend(accts, idx, rec) == Append(accts, rec)
Upsert(accts, idx, rec) ==
    IF idx = 0 THEN Append(accts, rec) ELSE [accts EXCEPT ![idx] = rec]

NoCall == [email |-> Blank, value |-> "", expires_at |-> [month |-> 0, day |-> 0],
           now |-> 0, raised |-> FALSE]

\* update_accounts_json(json_path, email, cookie_data) at time jclock
UpdateAccountsJsonCall ==
    /\ jclock \in 1..MaxWrites
    /\ \E e \in StoreEmails, v \in {"V", "W"}, d \in StoreDays :
       \E x \in BundleExpires(d) :
         /\ jcall' = [email |-> e, value |-> v, expires_at |-> x,
                      now |-> jclock, raised |-> UpdateRaises(d)]
         /\ jstore' = IF UpdateRaises(d) THEN jstore
                       ELSE Upsert(jstore, StoreIndex(jstore, e),
                                   StoreRecord(jstore, e, v, jclock, d))
    /\ jprev' = jstore
    /\ jclock' = jclock + 1
    /\ UNCHANGED restStore

StoreIdle == jstore = <<>> /\ jprev = <<>> /\ jcall = NoCall /\ jclock = 0

-----------------------------------------------------------------------------
(* append_to_csv on its own *)

MaxAppends == 3        \* append_to_csv calls
MaxRows == 2           \* rows of the file before the first call

\* A row: the ID column as a number when `row.get("ID", "").isdigit()`,
\* the Account column.
Row(k, e) == [id |-> k, numeric |-> TRUE, email |-> e]
OddRow(e) == [id |-> 0, numeric |-> FALSE, email |-> e]
FirstRows == { Row(1, CsvEmail(1)), Row(5, CsvEmail(1)), OddRow(CsvEmail(1)) }
FirstFiles == UNION { [1..n -> FirstRows] : n \in 0..MaxRows }

\* valid_ids
ValidIds(rows) == { rows[k].id : k \in { j \in 1..Len(rows) : rows[j].numeric } }

\* next_id: 1 for no file and for no rows, else max(valid_ids) + 1 with
\* max_id = 0 when no row has a numeric ID
NextIdByCount(rows) == Len(rows) + 1
NextId(rows) ==
    IF ValidIds(rows) = {} THEN 1
    ELSE (CHOOSE m \in ValidIds(rows) : \A k \in ValidIds(rows) : k <= m) + 1

\* the call returns True, or raises inside its try block while reading the
\* file or while writing (the header of a new file is written by then)
AppendOutcomes == {"ok", "read_fails", "write_fails"}

\* append_to_csv(csv_path, email, password)
AppendToCsvCall ==
    /\ lcall.n \in 1..MaxAppends
    /\ \E e \in StoreEmails, o \in AppendOutcomes :
         /\ o = "read_fails" => lexists
         /\ lcall' = [n |-> lcall.n + 1, ok |-> o = "ok"]
         /\ lexists' = (lexists \/ o # "read_fails")
         /\ lrows' = IF o = "ok" THEN Append(lrows, Row(NextId(lrows), e))
                      ELSE lrows
    /\ lprev' = lrows
    /\ UNCHANGED restLedger

LedgerIdle ==
    lexists = FALSE /\ lrows = <<>> /\ lprev = <<>> /\ lcall = [n |-> 0, ok |-> FALSE]

-----------------------------------------------------------------------------
(* DataPusher.push on its own *)

MaxRetry == 3          \* the largest retry_count

\* what requests.post does: a response with a status code, or it raises
\* requests.exceptions.Timeout or another RequestException
PostOutcomes == {"200", "201", "204", "404", "500", "timeout", "request_error"}

\* `if response.status_code in (200, 201, 204)`
PushSucceededOnly200(o) == o = "200"
PushSucceeded(o) == o \in {"200", "201", "204"}

\* the exceptions of requests.post the two except clauses catch
PushCatches == {"timeout", "request_error"}

NoPusher ==
    [pc |-> "idle", url |-> FALSE, retry_count |-> 0, attempt |-> 0,
     outs |-> <<>>, ret |-> FALSE, raised |-> FALSE]

\* push(data), up to the loop
PushCall ==
    /\ pusher.pc = "ready"
    /\ pusher' = IF pusher.url THEN [pusher EXCEPT !.pc = "loop"]
                  ELSE [pusher EXCEPT !.pc = "done", !.ret = FALSE]
    /\ UNCHANGED restPusher

\* one pass of `for attempt in range(self.retry_count)`
PushAttempt ==
    /\ pusher.pc = "loop"
    /\ pusher.attempt < pusher.retry_count
    /\ \E o \in PostOutcomes :
         pusher' =
           IF PushSucceeded(o)
           THEN [pusher EXCEPT !.outs = Append(@, o), !.pc = "done", !.ret = TRUE]
           ELSE IF o \in {"timeout", "request_error"} /\ o \notin PushCatches
           THEN [pusher EXCEPT !.outs = Append(@, o), !.pc = "done",
                               !.raised = TRUE]
           ELSE [pusher EXCEPT !.outs = Append(@, o), !.attempt = @ + 1]
    /\ UNCHANGED restPusher

\* the loop is over: `return False`
PushExhausted ==
    /\ pusher.pc = "loop"
    /\ pusher.attempt >= pusher.retry_count
    /\ pusher' = [pusher EXCEPT !.pc = "done", !.ret = FALSE]
    /\ UNCHANGED restPusher

PusherIdle == pusher = NoPusher

-----------------------------------------------------------------------------
(* Two tasks of the API server on the one ClashManager *)

\* The tasks are coroutines of one event loop: a task runs from one await to
\* the next without another task running. find_healthy_node has no await,
\* browser.start(), login(), ... are awaited.
JobIds == {1, 2}

NoJob == [pc |-> "idle", node |-> NoNode, live |-> FALSE, route |-> <<>>]

\* what stands between a task and its find_healthy_node call
FindBlockedWhileLive(js, j) == \E k \in JobIds \ {j} : js[k].live
FindBlocked(js, j) == FALSE

\* register_single_account: `node = clash_manager.find_healthy_node()`
TwoFindCall(j) ==
    /\ jobs[j].pc = "pending"
    /\ fpc = "idle"
    /\ ~FindBlocked(jobs, j)
    /\ fpc' = "start"
    /\ fgname' = NoGroup
    /\ findCalls' = findCalls + 1
    /\ jobs' = [jobs EXCEPT ![j].pc = "finding"]
    /\ UNCHANGED <<proxies, latResp, reach, selected, fgroup, forder, fi,
                   fresult, probes, selectCalls, selectFailed, listFailed>>
    /\ UNCHANGED restJobs

\* `if not node: return None`, else on to the attempts
TwoFindReturn(j) ==
    /\ jobs[j].pc = "finding"
    /\ fpc = "done"
    /\ fpc' = "idle"
    /\ forder' = <<>>
    /\ fi' = 0
    /\ fgroup' = NoGroup
    /\ probes' = [n \in Nodes |-> 0]
    /\ selectCalls' = {}
    /\ selectFailed' = FALSE
    /\ jobs' = IF NotNode(fresult)
               THEN [jobs EXCEPT ![j].pc = "done"]
               ELSE [jobs EXCEPT ![j].pc = "found", ![j].node = fresult]
    /\ UNCHANGED <<proxies, latResp, reach, selected, fgname, fresult, findCalls,
                   listFailed>>
    /\ UNCHANGED restJobs

\* `await browser.start()`: the session of the task is live
TwoSessionStart(j) ==
    /\ jobs[j].pc = "found"
    /\ fpc = "idle"
    /\ jobs' = [jobs EXCEPT ![j].pc = "session", ![j].live = TRUE,
                            ![j].route = selected]
    /\ UNCHANGED findVars
    /\ UNCHANGED restJobs

\* `await browser.stop()` at the end of the attempt
TwoSessionEnd(j) ==
    /\ jobs[j].pc = "session"
    /\ fpc = "idle"
    /\ jobs' = [jobs EXCEPT ![j].pc = "done", ![j].live = FALSE]
    /\ UNCHANGED findVars
    /\ UNCHANGED restJobs

JobsIdle == jobs = [j \in JobIds |-> NoJob]

-----------------------------------------------------------------------------
(* BrowserController.login *)

login_max_retries == 3     \* `max_retries = 3` of login
WaitPolls == 15            \* `for attempt in range(15)`
RetryPoll == 5             \* `if attempt == 5`

\* what page.goto does: it returns, or raises with one of these messages
N_CLOSED == "net::ERR_CONNECTION_CLOSED"
N_RESET == "net::ERR_CONNECTION_RESET"
N_TIMEOUT == "Timeout 60000ms exceeded"
GotoOutcomes == {"ok", N_CLOSED, N_RESET, N_TIMEOUT}

\* `"net::ERR_CONNECTION_CLOSED" in error_msg or
\*  "net::ERR_CONNECTION_RESET" in error_msg`
TransientAny(error_msg) == error_msg # "ok"
Transient(error_msg) == error_msg \in {N_CLOSED, N_RESET}

\* the `return True` that ends the try block
LoginResultIfChanged(page_changed) == IF page_changed THEN "true" ELSE "false"
LoginResult(page_changed) == "true"

NoLogin == [pc |-> "idle", attempt |-> 0, outs |-> <<>>, found |-> FALSE,
            raised |-> "none", swallowed |-> FALSE, poll |-> 0,
            page_changed |-> FALSE, changedAt |-> 0, retryAt |-> <<>>,
            ret |-> "none"]

\* `except Exception as e: ... return False` around the whole body
LoginCatches(l, step) == [l EXCEPT !.pc = "done", !.raised = step, !.ret = "false"]

LoginCall ==
    /\ login.pc = "ready"
    /\ login' = [login EXCEPT !.pc = "goto"]
    /\ UNCHANGED restLogin

\* one pass of `for attempt in range(max_retries)`: goto, and on an error
\* sleep 3 s and go round again, or raise. The loop ends by break or by
\* raise, never by exhaustion.
LoginGoto ==
    /\ login.pc = "goto"
    /\ login.attempt < login_max_retries
    /\ \E out \in GotoOutcomes :
         LET l == [login EXCEPT !.outs = Append(@, out)] IN
         login' = IF out = "ok"
                  THEN [l EXCEPT !.pc = "find"]
                  ELSE IF Transient(out) /\ login.attempt < login_max_retries - 1
                  THEN [l EXCEPT !.attempt = @ + 1]
                  ELSE LoginCatches(l, "goto")
    /\ UNCHANGED restLogin

\* _find_element_by_selectors(EMAIL_SELECTORS): an element or None
LoginFindEmail ==
    /\ login.pc = "find"
    /\ \E f \in BOOLEAN :
         login' = IF f THEN [login EXCEPT !.pc = "input", !.found = TRUE]
                  ELSE [login EXCEPT !.pc = "done", !.ret = "false"]
    /\ UNCHANGED restLogin

\* the stability loop (its exceptions are swallowed), _input_via_js (never
\* raises) and the native click / fill / type when it gave False
LoginInput ==
    /\ login.pc = "input"
    /\ \E sw \in BOOLEAN, how \in {"js", "native", "native_raises"} :
         LET l == [login EXCEPT !.swallowed = sw] IN
         login' = IF how = "native_raises" THEN LoginCatches(l, "input")
                  ELSE [l EXCEPT !.pc = "click"]
    /\ UNCHANGED restLogin

\* _click_via_js (never raises), else the button found natively and
\* clicked, else Enter pressed on the field
LoginClick ==
    /\ login.pc = "click"
    /\ \E how \in {"js", "native", "native_raises", "enter", "enter_raises"} :
         login' = IF how \in {"native_raises", "enter_raises"}
                  THEN LoginCatches(login, "click")
                  ELSE [login EXCEPT !.pc = "wait"]
    /\ UNCHANGED restLogin

\* one pass of `for attempt in range(15)`: sleep 1 s, compare the URL, look
\* for the code input, and on pass 5 click continue and press Enter again
LoginPoll ==
    /\ login.pc = "wait"
    /\ login.poll < WaitPolls
    /\ \E obs \in {"url", "pin", "none"} :
         LET again == [login EXCEPT !.retryAt = Append(@, login.poll + 1)] IN
         \/ /\ obs # "none"
            /\ login' = [login EXCEPT !.pc = "after", !.page_changed = TRUE,
                                      !.changedAt = login.poll + 1]
         \/ /\ obs = "none" /\ login.poll # RetryPoll
            /\ login' = [login EXCEPT !.poll = @ + 1]
         \/ /\ obs = "none" /\ login.poll = RetryPoll
            /\ \E pressRaises \in BOOLEAN :
                 login' = IF pressRaises THEN LoginCatches(again, "retry")
                          ELSE [again EXCEPT !.poll = @ + 1]
    /\ UNCHANGED restLogin

\* the loop is over without a change
LoginWaitOver ==
    /\ login.pc = "wait"
    /\ login.poll = WaitPolls
    /\ login' = [login EXCEPT !.pc = "after"]
    /\ UNCHANGED restLogin

\* `if not page_changed:` the field is read again and, when it is empty,
\* filled and submitted again, all inside try / except: pass; `return True`
LoginFinish ==
    /\ login.pc = "after"
    /\ \E sw \in BOOLEAN :
         /\ (sw => ~login.page_changed)
         /\ login' = [login EXCEPT !.pc = "done",
                                   !.swallowed = @ \/ sw,
                                   !.ret = LoginResult(login.page_changed)]
    /\ UNCHANGED restLogin

LoginIdle == login = NoLogin

-----------------------------------------------------------------------------
(* BrowserController.enter_verification_code *)

CodeLookups == 10          \* `for _ in range(10)` around the field lookup
CodePolls == 10            \* `for _ in range(10)` after the code is submitted

\* A URL is the set of the words it is made of; `kw in curr_url` for a list
\* of keywords is true when one of them is among the words.
UrlWords == {"home", "cid", "verify", "signin"}
Urls == SUBSET UrlWords
HomeMarkers == {"home", "admin", "setup", "create", "dashboard"}
fail_keywords == {"verify", "oob", "error"}
HasAny(url, kws) == url \cap kws # {}

\* what follows the 10 polls: the failure check on the URL and `return True`
FinalResultFalse(url) == "false"
FinalResult(url) == IF HasAny(url, fail_keywords) THEN "false" ELSE "true"

NoEnter == [pc |-> "idle", lookups |-> 0, poll |-> 0, url |-> {},
            homeAt |-> 0, failAt |-> 0, raised |-> FALSE, ret |-> "none"]

\* `except Exception as e: ... return False` around the whole body
EnterCatches(e) == [e EXCEPT !.pc = "done", !.raised = TRUE, !.ret = "false"]

EnterCall ==
    /\ enter.pc = "ready"
    /\ enter' = [enter EXCEPT !.pc = "lookup"]
    /\ UNCHANGED restEnter

\* one pass of the lookup loop: the field is found, or sleep 0.5 s
EnterLookup ==
    /\ enter.pc = "lookup"
    /\ enter.lookups < CodeLookups
    /\ \E f \in BOOLEAN :
         enter' = [enter EXCEPT !.lookups = @ + 1,
                                !.pc = IF f THEN "input" ELSE "lookup"]
    /\ UNCHANGED restEnter

\* `if not code_input: return False`
EnterNotFound ==
    /\ enter.pc = "lookup"
    /\ enter.lookups = CodeLookups
    /\ enter' = [enter EXCEPT !.pc = "done", !.ret = "false"]
    /\ UNCHANGED restEnter

\* click, fill, the two page.evaluate calls, Enter when no button was clicked
EnterSubmit ==
    /\ enter.pc = "input"
    /\ \E how \in {"clicked", "enter", "raises"} :
         enter' = IF how = "raises" THEN EnterCatches(enter)
                  ELSE [enter EXCEPT !.pc = "poll"]
    /\ UNCHANGED restEnter

\* one pass of the loop after the submit: sleep 3 s, read the URL, return
\* True on a home marker. Reading the URL of a closed page raises.
EnterPoll ==
    /\ enter.pc = "poll"
    /\ enter.poll < CodePolls
    /\ \/ enter' = EnterCatches([enter EXCEPT !.poll = @ + 1])
       \/ \E u \in Urls :
            LET e == [enter EXCEPT
                        !.poll = @ + 1, !.url = u,
                        !.failAt = IF @ = 0 /\ HasAny(u, fail_keywords)
                                      /\ ~HasAny(u, HomeMarkers)
                                   THEN enter.poll + 1 ELSE @] IN
            enter' = IF HasAny(u, HomeMarkers)
                     THEN [e EXCEPT !.pc = "done", !.ret = "true",
                                    !.homeAt = enter.poll + 1]
                     ELSE e
    /\ UNCHANGED restEnter

\* after the 10th pass: the URL is read again with no await in between, so
\* it is the URL of the 10th pass
EnterFinal ==
    /\ enter.pc = "poll"
    /\ enter.poll = CodePolls
    /\ enter' = [enter EXCEPT !.pc = "done", !.ret = FinalResult(enter.url)]
    /\ UNCHANGED restEnter

EnterIdle == enter = NoEnter

-----------------------------------------------------------------------------
(* BrowserController.wait_for_login_complete *)

CheckEvery == 3            \* `timeout // 3`, `asyncio.sleep(3)`

\* the timeout arguments: the default and the callers' 60, and small ones
WaitTimeouts == {0, 2, 3, 7, 60}
LoginMarkers == HomeMarkers \cup {"cid"}

\* `range(timeout // 3)`
ChecksCeil(timeout) == (timeout + CheckEvery - 1) \div CheckEvery
Checks(timeout) == timeout \div CheckEvery

NoWaitc == [pc |-> "idle", timeout |-> 0, reads |-> 0, url |-> {},
            markAt |-> 0, raised |-> FALSE, ret |-> "none"]

WaitCompleteCall ==
    /\ waitc.pc = "ready"
    /\ waitc' = [waitc EXCEPT !.pc = "loop"]
    /\ UNCHANGED restWaitc

\* one pass: read the URL (which raises on a closed page: `except
\* Exception: return False`), return True on a marker, else sleep 3 s
WaitCompleteCheck ==
    /\ waitc.pc = "loop"
    /\ waitc.reads < Checks(waitc.timeout)
    /\ \/ waitc' = [waitc EXCEPT !.reads = @ + 1, !.pc = "done",
                                  !.raised = TRUE, !.ret = "false"]
       \/ \E u \in Urls :
            waitc' = IF HasAny(u, LoginMarkers)
                     THEN [waitc EXCEPT !.reads = @ + 1, !.url = u,
                                        !.markAt = waitc.reads + 1,
                                        !.pc = "done", !.ret = "true"]
                     ELSE [waitc EXCEPT !.reads = @ + 1, !.url = u]
    /\ UNCHANGED restWaitc

\* the loop is over: `return False`
WaitCompleteTimeout ==
    /\ waitc.pc = "loop"
    /\ waitc.reads = Checks(waitc.timeout)
    /\ waitc' = [waitc EXCEPT !.pc = "done", !.ret = "false"]
    /\ UNCHANGED restWaitc

WaitcIdle == waitc = NoWaitc

-----------------------------------------------------------------------------
(* ClashManager._prepare_config *)

\* A key of the YAML mapping: present or not, and its value. An empty list
\* and a null value are both falsy.
Absent == [has |-> FALSE, null |-> FALSE, val |-> <<>>]
Null == [has |-> TRUE, null |-> TRUE, val |-> <<>>]
Listed(s) == [has |-> TRUE, null |-> FALSE, val |-> s]
Falsy(k) == ~k.has \/ k.null \/ k.val = <<>>

\* the name of the synthesized group (a fixed string of the source) and a
\* name a configuration file may give a group of its own
AutoGroupName == "node-select"
OwnGroupName == "auto"

\* proxies: mappings with or without a "name"
ProxyEntries == {[name |-> "US"], [name |-> "HK"], [server |-> "1.2.3.4"]}
ProxyLists == {<<>>} \cup {<<a>> : a \in ProxyEntries}
                \cup {<<a, b>> : a \in ProxyEntries, b \in ProxyEntries}
GroupLists == {<<>>, <<OwnGroupName>>, <<AutoGroupName>>,
               <<OwnGroupName, AutoGroupName>>}
RuleLists == {<<>>, <<<<"MATCH", OwnGroupName>>>>,
              <<<<"MATCH", AutoGroupName>>>>, <<<<"MATCH", "DIRECT">>>>}
Configs == [proxies : {Absent, Null} \cup {Listed(s) : s \in ProxyLists},
            groups : {Absent, Null} \cup {Listed(s) : s \in GroupLists},
            rules : {Absent, Null} \cup {Listed(s) : s \in RuleLists}]

RECURSIVE ProxyNames(_)
\* `[p["name"] for p in proxies if "name" in p]`
ProxyNames(ps) ==
    IF ps = <<>> THEN <<>>
    ELSE IF "name" \in DOMAIN Head(ps)
    THEN <<Head(ps).name>> \o ProxyNames(Tail(ps))
    ELSE ProxyNames(Tail(ps))

\* `cfg.get("proxies", [])` is iterated: a null value raises TypeError
PrepareRaises(cfg) == Falsy(cfg.groups) /\ cfg.proxies.null

\* the proxy-groups of the runtime configuration
PreparedGroups(cfg) ==
    IF Falsy(cfg.groups) /\ ProxyNames(cfg.proxies.val) # <<>>
    THEN Listed(<<AutoGroupName>>)
    ELSE cfg.groups

\* the rules of the runtime configuration
PreparedRules(cfg) ==
    IF Falsy(cfg.rules) THEN Listed(<< <<"MATCH", AutoGroupName>> >>)
    ELSE cfg.rules

NoPrep == [pc |-> "idle", cfg |-> [proxies |-> Absent, groups |-> Absent,
                                   rules |-> Absent],
           groups |-> Absent, rules |-> Absent, synth |-> FALSE,
           raised |-> FALSE]

PrepareConfig ==
    /\ prep.pc = "ready"
    /\ prep' = IF PrepareRaises(prep.cfg)
               THEN [prep EXCEPT !.pc = "done", !.raised = TRUE]
               ELSE [prep EXCEPT !.pc = "done",
                                 !.groups = PreparedGroups(prep.cfg),
                                 !.rules = PreparedRules(prep.cfg),
                                 !.synth = Falsy(prep.cfg.rules)]
    /\ UNCHANGED restPrep

PrepIdle == prep = NoPrep

-----------------------------------------------------------------------------
(* BrowserController.start: the profile of a session *)

MaxSessions == 3           \* BrowserController objects looked at

SessionIds == 1..MaxSessions

\* The persistent-context path launches on the fixed directory
\* "/tmp/gemini-browser-profile"; the standard path gets a new context of a
\* newly launched browser, which starts empty and is dropped at close.
NoSession == [pc |-> "new", path |-> "none", found |-> {}]
NoProf == [exists |-> FALSE, holds |-> {},
           s |-> [j \in SessionIds |-> NoSession]]

\* the state of other sessions that session j can read
Visible(j) ==
    (prof.s[j].found
       \cup IF prof.s[j].pc = "live" /\ prof.s[j].path = "persistent"
            THEN prof.holds ELSE {}) \ {j}

\* start(): on the persistent path `shutil.rmtree(user_data_dir)` inside
\* try / except (a failure is logged and start goes on), then
\* launch_persistent_context(user_data_dir, ...)
ProfileStart(j) ==
    /\ prof.s[j].pc = "new"
    /\ \E path \in {"persistent", "standard"}, rmFails \in BOOLEAN :
         /\ rmFails => (path = "persistent" /\ prof.exists)
         /\ LET left == IF rmFails THEN prof.holds ELSE {} IN
            prof' = IF path = "persistent"
                    THEN [exists |-> TRUE, holds |-> left,
                          s |-> [prof.s EXCEPT ![j] = [pc |-> "live",
                                                       path |-> path,
                                                       found |-> left]]]
                    ELSE [prof EXCEPT !.s[j] = [pc |-> "live", path |-> path,
                                                found |-> {}]]
    /\ UNCHANGED restProf

\* the browser of a live session writes cookies and storage to its profile
ProfileWrite(j) ==
    /\ prof.s[j].pc = "live"
    /\ prof.s[j].path = "persistent"
    /\ j \notin prof.holds
    /\ prof' = [prof EXCEPT !.holds = @ \cup {j}]
    /\ UNCHANGED restProf

\* stop(): the context is closed; nothing removes the directory
ProfileStop(j) ==
    /\ prof.s[j].pc = "live"
    /\ prof' = [prof EXCEPT !.s[j].pc = "stopped"]
    /\ UNCHANGED restProf

ProfIdle == prof = NoProf

\* no operation is looked at on its own
UnitIdle ==
    /\ MailIdle /\ ExtractIdle /\ CookieIdle /\ StoreIdle /\ LedgerIdle
    /\ PusherIdle /\ JobsIdle /\ LoginIdle /\ EnterIdle /\ WaitcIdle /\ PrepIdle /\ ProfIdle

-----------------------------------------------------------------------------
(* Initial states and specifications *)

\* Proxy environments: the member list of the groups, each node's answers,
\* and the node each selectable group routes through when the call starts.
ProxyInit ==
    /\ \E m \in MemberLists :
         /\ proxies \in ProxyConfigs(m)
         /\ \E now \in (IF m = <<>> THEN {NoNode} ELSE Range(m)) :
              selected = [g \in SelGroups |-> now]
    /\ latResp \in [Nodes -> LatResps]
    /\ \A n \in Nodes : Skipped(n) => latResp[n] = R_pos
    /\ reach \in [Nodes -> BOOLEAN]

\* The proxy environments of a job: one selectable group holding every node
ProxyInitJob ==
    /\ proxies = << Group("auto", "URLTest", SeqOfSet(Nodes)),
                    Group("sel", "Selector", SeqOfSet(Nodes)) >>
    /\ selected = [g \in SelGroups |-> N_DIRECT]
    /\ latResp = [n \in Nodes |-> IF n = N_HK THEN R_exc ELSE R_pos]
    /\ reach \in { r \in [Nodes -> BOOLEAN] : ~r[N_HK] /\ ~r[N_DIRECT] }

FindIdle ==
    /\ fpc = "idle"
    /\ fgname = NoGroup
    /\ fgroup = NoGroup
    /\ forder = <<>>
    /\ fi = 0
    /\ fresult = NoNode
    /\ probes = [n \in Nodes |-> 0]
    /\ selectCalls = {}
    /\ selectFailed = FALSE
    /\ findCalls = 0
    /\ listFailed = FALSE

OldRecord == [id |-> 1, email |-> CsvEmail(1), secure_c_ses |-> "old"]

JobInit ==
    /\ kind \in Kinds
    /\ count \in 1..MaxCount
    /\ kind = "api_refresh" => count = 1
    /\ IF kind = "cli_refresh"
       THEN /\ accounts \in { a \in [1..count -> {Blank} \cup { CsvEmail(k) : k \in 1..count }] :
                                \A k \in 1..count : a[k] \in {Blank, CsvEmail(k)} }
            /\ proxyNodeArg \in {NoNode, N_US}
       ELSE accounts = <<>> /\ proxyNodeArg = NoNode
    /\ store \in (IF kind \in RefreshKinds THEN {<<>>, <<OldRecord>>} ELSE {<<>>})
    /\ ledger = <<>>
    /\ status = IF kind \in ApiKinds THEN "pending" ELSE "none"
    /\ progress = Progress(IF kind = "api_register" THEN count ELSE 0, 0, 0, 0)

OrchIdle ==
    /\ i = 0
    /\ attempt = 0
    /\ email = Blank
    /\ password = Blank
    /\ cookie_data = EmptyBundle
    /\ ret = "none"
    /\ existing_accounts = {}
    /\ mailCreds = NoCreds
    /\ mailToken = FALSE
    /\ registerCalls = 0
    /\ bindCalls = 0
    /\ inbox = {}
    /\ clearCalls = 0
    /\ codeFrom = "none"
    /\ codePoll = 0
    /\ sess = 0
    /\ hasSession = FALSE
    /\ res = NoRes
    /\ stops = 0
    /\ liveOthers = 0
    /\ taskError = FALSE
    /\ completedAt = FALSE
    /\ results = <<>>
    /\ success_count = 0
    /\ fail_count = 0
    /\ nodeFound = FALSE
    /\ attemptsMade = 0
    /\ regOk = 0
    /\ loginTrue = FALSE
    /\ loggedIn = FALSE
    /\ stages = <<>>

vars == <<findVars, orchVars>>

\* ---- one job ----
Init ==
    ProxyInitJob /\ FindIdle /\ JobInit /\ OrchIdle /\ UnitIdle /\ pc = "job_start"

Next ==
    \/ CliRegisterStart \/ ApiRegisterStart \/ ApiRefreshStart \/ CliRefreshStart
    \/ RegisterLoop \/ RefreshLoop \/ CliFinish \/ ApiRegisterFinish
    \/ FindEntry \/ CliRefreshBlank \/ CliRefreshSwitch
    \/ FindStart \/ FindIter \/ FindExhausted \/ FindReturn
    \/ ApiLoginExisting \/ CliBind
    \/ RegisterAttempt \/ RefreshAttempt
    \/ BrowserStart \/ ClearInbox \/ BrowserLogin \/ WaitForCode
    \/ EnterCode \/ WaitComplete \/ ExtractCookies \/ CliRefreshSave
    \/ FailStop \/ OkStop \/ HandlerStop \/ FinallyStop \/ Continue
    \/ CliRegisterAfter \/ ApiRegisterAfter \/ ApiRefreshAfter \/ CliRefreshAfter

Spec == Init /\ [][Next]_vars

\* ---- one call of find_healthy_node ----
InitFind ==
    /\ ProxyInit /\ FindIdle /\ OrchIdle /\ UnitIdle
    /\ kind = "cli_register" /\ count = 1 /\ accounts = <<>>
    /\ proxyNodeArg = NoNode /\ store = <<>> /\ ledger = <<>>
    /\ status = "none" /\ progress = Progress(0, 0, 0, 0)
    /\ pc = "idle"

NextFind == FindCall \/ FindStart \/ FindIter \/ FindExhausted

SpecFind == InitFind /\ [][NextFind]_vars

\* the job and every other unit at rest
UnitInit ==
    /\ ProxyInitJob /\ reach = [n \in Nodes |-> FALSE] /\ FindIdle
    /\ OrchIdle
    /\ kind = "cli_refresh" /\ count = 1 /\ accounts = <<CsvEmail(1)>>
    /\ proxyNodeArg = NoNode /\ store = <<>> /\ ledger = <<>>
    /\ status = "none" /\ progress = Progress(0, 0, 0, 0)
    /\ pc = "idle"

\* ---- accounts.json, from an empty file ----
InitStore ==
    /\ UnitInit /\ MailIdle /\ ExtractIdle /\ CookieIdle /\ LedgerIdle
    /\ PusherIdle /\ JobsIdle /\ LoginIdle /\ EnterIdle /\ WaitcIdle /\ PrepIdle /\ ProfIdle
    /\ jstore = <<>> /\ jprev = <<>> /\ jcall = NoCall /\ jclock = 1

NextStore == UpdateAccountsJsonCall

SpecStore == InitStore /\ [][NextStore]_vars

\* ---- result.csv: no file, a header-only file, or a file with rows ----
InitLedger ==
    /\ UnitInit /\ MailIdle /\ ExtractIdle /\ CookieIdle /\ StoreIdle
    /\ PusherIdle /\ JobsIdle /\ LoginIdle /\ EnterIdle /\ WaitcIdle /\ PrepIdle /\ ProfIdle
    /\ lexists \in BOOLEAN
    /\ lrows \in FirstFiles
    /\ ~lexists => lrows = <<>>
    /\ lprev = lrows
    /\ lcall = [n |-> 1, ok |-> FALSE]

NextLedger == AppendToCsvCall

SpecLedger == InitLedger /\ [][NextLedger]_vars

\* ---- one call of DataPusher.push ----
InitPusher ==
    /\ UnitInit /\ MailIdle /\ ExtractIdle /\ CookieIdle /\ StoreIdle
    /\ LedgerIdle /\ JobsIdle /\ LoginIdle /\ EnterIdle /\ WaitcIdle /\ PrepIdle /\ ProfIdle
    /\ \E u \in BOOLEAN, n \in 0..MaxRetry :
         pusher = [NoPusher EXCEPT !.pc = "ready", !.url = u, !.retry_count = n]

NextPusher == PushCall \/ PushAttempt \/ PushExhausted

SpecPusher == InitPusher /\ [][NextPusher]_vars

\* ---- one call of BrowserController.login on a started controller ----
InitLogin ==
    /\ UnitInit /\ MailIdle /\ ExtractIdle /\ CookieIdle /\ StoreIdle
    /\ LedgerIdle /\ PusherIdle /\ JobsIdle /\ EnterIdle /\ WaitcIdle /\ PrepIdle /\ ProfIdle
    /\ login = [NoLogin EXCEPT !.pc = "ready"]

NextLogin ==
    \/ LoginCall \/ LoginGoto \/ LoginFindEmail \/ LoginInput \/ LoginClick
    \/ LoginPoll \/ LoginWaitOver \/ LoginFinish

SpecLogin == InitLogin /\ [][NextLogin]_vars

\* ---- one call of enter_verification_code on a started controller ----
InitEnter ==
    /\ UnitInit /\ MailIdle /\ ExtractIdle /\ CookieIdle /\ StoreIdle
    /\ LedgerIdle /\ PusherIdle /\ JobsIdle /\ LoginIdle /\ WaitcIdle /\ PrepIdle /\ ProfIdle
    /\ enter = [NoEnter EXCEPT !.pc = "ready"]

NextEnter ==
    \/ EnterCall \/ EnterLookup \/ EnterNotFound \/ EnterSubmit \/ EnterPoll
    \/ EnterFinal

SpecEnter == InitEnter /\ [][NextEnter]_vars

\* ---- one call of wait_for_login_complete; the coroutine is scheduled
\* ---- until it returns
InitWaitc ==
    /\ UnitInit /\ MailIdle /\ ExtractIdle /\ CookieIdle /\ StoreIdle
    /\ LedgerIdle /\ PusherIdle /\ JobsIdle /\ LoginIdle /\ EnterIdle /\ PrepIdle /\ ProfIdle
    /\ \E t \in WaitTimeouts : waitc = [NoWaitc EXCEPT !.pc = "ready", !.timeout = t]

NextWaitc == WaitCompleteCall \/ WaitCompleteCheck \/ WaitCompleteTimeout

SpecWaitc == InitWaitc /\ [][NextWaitc]_vars /\ WF_vars(NextWaitc)

\* ---- _prepare_config on every small configuration file ----
InitPrep ==
    /\ UnitInit /\ MailIdle /\ ExtractIdle /\ CookieIdle /\ StoreIdle
    /\ LedgerIdle /\ PusherIdle /\ JobsIdle /\ LoginIdle /\ EnterIdle
    /\ WaitcIdle /\ ProfIdle
    /\ \E c \in Configs : prep = [NoPrep EXCEPT !.pc = "ready", !.cfg = c]

NextPrep == PrepareConfig

SpecPrep == InitPrep /\ [][NextPrep]_vars

\* ---- the sessions of successive attempts and of concurrent tasks ----
InitProf ==
    /\ UnitInit /\ MailIdle /\ ExtractIdle /\ CookieIdle /\ StoreIdle
    /\ LedgerIdle /\ PusherIdle /\ JobsIdle /\ LoginIdle /\ EnterIdle
    /\ WaitcIdle /\ PrepIdle
    /\ prof = NoProf

NextProf ==
    \/ \E j \in SessionIds : ProfileStart(j)
    \/ \E j \in SessionIds : ProfileWrite(j)
    \/ \E j \in SessionIds : ProfileStop(j)

SpecProf == InitProf /\ [][NextProf]_vars

\* ---- two register tasks, both posted before the first one runs ----
InitTwo ==
    /\ proxies = << Group("auto", "URLTest", SeqOfSet(Nodes)),
                    Group("sel", "Selector", SeqOfSet(Nodes)) >>
    /\ selected = [g \in SelGroups |-> N_DIRECT]
    /\ latResp = [n \in Nodes |-> R_pos]
    /\ reach \in [Nodes -> BOOLEAN]
    /\ FindIdle /\ OrchIdle
    /\ kind = "api_register" /\ count = 1 /\ accounts = <<>>
    /\ proxyNodeArg = NoNode /\ store = <<>> /\ ledger = <<>>
    /\ status = "none" /\ progress = Progress(0, 0, 0, 0)
    /\ pc = "idle"
    /\ MailIdle /\ ExtractIdle /\ CookieIdle /\ StoreIdle /\ LedgerIdle
    /\ PusherIdle /\ LoginIdle /\ EnterIdle /\ WaitcIdle /\ PrepIdle /\ ProfIdle
    /\ jobs = [j \in JobIds |-> [NoJob EXCEPT !.pc = "pending"]]

NextTwo ==
    \/ \E j \in JobIds : TwoFindCall(j)
    \/ FindStart \/ FindIter \/ FindExhausted
    \/ \E j \in JobIds : TwoFindReturn(j)
    \/ \E j \in JobIds : TwoSessionStart(j)
    \/ \E j \in JobIds : TwoSessionEnd(j)

SpecTwo == InitTwo /\ [][NextTwo]_vars

\* ---- one API task (run_register_task or run_refresh_task) ----
InitTask == Init /\ kind \in ApiKinds

NextTask ==
    \/ ApiRegisterStart \/ ApiRefreshStart
    \/ RegisterLoop \/ ApiRegisterFinish
    \/ FindEntry
    \/ FindStart \/ FindIter \/ FindExhausted \/ FindReturn
    \/ ApiLoginExisting
    \/ RegisterAttempt \/ RefreshAttempt
    \/ BrowserStart \/ BrowserLogin \/ WaitForCode
    \/ EnterCode \/ WaitComplete \/ ExtractCookies
    \/ FailStop \/ OkStop \/ HandlerStop \/ FinallyStop \/ Continue
    \/ ApiRegisterAfter \/ ApiRefreshAfter

\* the task is not suspended for ever: every call it awaits returns or raises
SpecTask == InitTask /\ [][NextTask]_vars /\ WF_vars(NextTask)

\* ---- one API task as posted: RegisterRequest.count is any int ----
InitPosted ==
    /\ ProxyInitJob /\ FindIdle /\ OrchIdle /\ UnitIdle /\ pc = "job_start"
    /\ kind \in ApiKinds
    /\ count \in (IF kind = "api_register" THEN (-1)..MaxCount ELSE {1})
    /\ accounts = <<>> /\ proxyNodeArg = NoNode
    /\ store \in (IF kind \in RefreshKinds THEN {<<>>, <<OldRecord>>} ELSE {<<>>})
    /\ ledger = <<>>
    /\ status = "pending"
    /\ progress = Progress(IF kind = "api_register" THEN count ELSE 0, 0, 0, 0)

SpecPosted == InitPosted /\ [][NextTask]_vars

\* ---- one MailClient ----
InitMail ==
    /\ ProxyInitJob /\ reach = [n \in Nodes |-> FALSE] /\ FindIdle
    /\ OrchIdle /\ ExtractIdle /\ CookieIdle /\ StoreIdle /\ LedgerIdle
    /\ PusherIdle /\ JobsIdle /\ LoginIdle /\ EnterIdle /\ WaitcIdle /\ PrepIdle /\ ProfIdle
    /\ kind = "cli_refresh" /\ count = 1 /\ accounts = <<CsvEmail(1)>>
    /\ proxyNodeArg = NoNode /\ store = <<>> /\ ledger = <<>>
    /\ status = "none" /\ progress = Progress(0, 0, 0, 0)
    /\ pc = "idle"
    /\ MailReady

NextMail ==
    \/ ClearInboxCall \/ WaitForCodeCall \/ WaitForCodePoll
    \/ WaitForCodeTimeout \/ MessageArrives

SpecMail == InitMail /\ [][NextMail]_vars

\* the polling loop is not suspended for ever
SpecMailFair == SpecMail /\ WF_vars(WaitForCodePoll \/ WaitForCodeTimeout)

\* ---- one call of _extract_code ----
InitExtract ==
    /\ ProxyInitJob /\ reach = [n \in Nodes |-> FALSE] /\ FindIdle
    /\ OrchIdle /\ MailIdle /\ CookieIdle /\ StoreIdle /\ LedgerIdle
    /\ PusherIdle /\ JobsIdle /\ LoginIdle /\ EnterIdle /\ WaitcIdle /\ PrepIdle /\ ProfIdle
    /\ kind = "cli_refresh" /\ count = 1 /\ accounts = <<CsvEmail(1)>>
    /\ proxyNodeArg = NoNode /\ store = <<>> /\ ledger = <<>>
    /\ status = "none" /\ progress = Progress(0, 0, 0, 0)
    /\ pc = "idle"
    /\ text \in Bodies
    /\ extracted = NotCalled

NextExtract == ExtractCodeCall \/ ExtractCodeEmpty

SpecExtract == InitExtract /\ [][NextExtract]_vars

\* ---- one call of extract_cookies ----
InitCookies ==
    /\ ProxyInitJob /\ reach = [n \in Nodes |-> FALSE] /\ FindIdle
    /\ OrchIdle /\ MailIdle /\ ExtractIdle /\ StoreIdle /\ LedgerIdle
    /\ PusherIdle /\ JobsIdle /\ LoginIdle /\ EnterIdle /\ WaitcIdle /\ PrepIdle /\ ProfIdle
    /\ kind = "cli_refresh" /\ count = 1 /\ accounts = <<CsvEmail(1)>>
    /\ proxyNodeArg = NoNode /\ store = <<>> /\ ledger = <<>>
    /\ status = "none" /\ progress = Progress(0, 0, 0, 0)
    /\ pc = "idle"
    /\ cpc = "ready"
    /\ ctx \in Contexts
    /\ result = EmptyResult
    /\ eraised = FALSE

NextCookies == ExtractCookiesCall

SpecCookies == InitCookies /\ [][NextCookies]_vars

-----------------------------------------------------------------------------
(* Properties *)

\* The account function has handed its result, or its exception, to the caller
CallOver == pc \in {"fn_return", "fn_raised"}

\* the caller is about to pass cookie_data to update_accounts_json
AtUpdate ==
    \/ pc = "save"
    \/ pc = "fn_return" /\ ret = "value" /\ kind # "cli_refresh"

\* C1: no record with an empty secure_c_ses is ever in accounts.json, and on
\* each of the four caller paths update_accounts_json is reached only with a
\* bundle whose secure_c_ses is non-empty, whatever the steps' outcomes were.
C1_NoEmptyCookieStored ==
    /\ \A k \in 1..Len(store) : store[k].secure_c_ses # ""
    /\ AtUpdate => cookie_data.secure_c_ses # ""

\* C1, the case: a bundle extracted by the job has been written to the store
C1_Witness ==
    \E k \in 1..Len(store) : store[k].secure_c_ses = "V"

\* C2: a register function whose every browser.login call returned False and
\* whose every MailClient.register call succeeded ends by returning None after
\* exactly max_retries attempts and max_retries registered identities.
C2_ThreeAttemptsThenNone ==
    (/\ kind \in RegisterKinds
     /\ CallOver
     /\ nodeFound
     /\ regOk = registerCalls
     /\ ~loginTrue)
    => (/\ pc = "fn_return"
        /\ ret = "none"
        /\ attemptsMade = max_retries
        /\ regOk = max_retries)

\* C3: stop() is called exactly once on every BrowserController: never twice
\* on the current one, and exactly once on one whose attempt is over.
C3_StopExactlyOnce ==
    /\ stops <= 1
    /\ (sess > 0 /\ ~hasSession) => stops = 1

\* C4: while an account function has a BrowserController, no earlier one of
\* the same call still holds an open resource: the session of attempt k was
\* stopped, and closed, before the session of attempt k + 1 was created.
C4_OneLiveSession ==
    /\ hasSession => liveOthers = 0
    /\ liveOthers + (IF hasSession /\ Live(res) THEN 1 ELSE 0) <= 1

\* C4, the case: the session of a second or third attempt of a register
\* function is open after the previous attempt failed
C4_Witness ==
    /\ kind \in RegisterKinds
    /\ attempt >= 1
    /\ sess >= 2
    /\ hasSession /\ Live(res)

C7_ClearBeforeLogin ==
    kind \in RefreshKinds =>
        /\ loggedIn => clearCalls >= 1
        /\ codeFrom # "stale"

\* A candidate that passes both checks of find_healthy_node
Healthy(n) ==
    /\ ~Skipped(n)
    /\ test_latency(latResp[n]) > 0
    /\ reach[n]

HealthyAt == { k \in 1..Len(forder) : Healthy(forder[k]) }

\* C8: when the resolved group has a member that passes both checks,
\* find_healthy_node returns the first such member of the shuffled order.
C8_FirstHealthyReturned ==
    (fpc = "done" /\ fgroup # NoGroup /\ HealthyAt # {})
    => fresult = forder[CHOOSE k \in HealthyAt : \A j \in HealthyAt : k <= j]

\* C9: when no member of the resolved group passes both checks,
\* find_healthy_node returns None after one latency probe of every member
\* that is not denylisted; a denylisted member is never probed, never
\* switched to and never returned.
C9_NoneAfterProbingAll ==
    (fpc = "done" /\ fgroup # NoGroup /\ HealthyAt = {})
    => /\ fresult = NoNode
       /\ \A n \in Range(forder) :
            IF Skipped(n)
            THEN probes[n] = 0 /\ n \notin selectCalls
            ELSE probes[n] = 1

\* The delay endpoint's answer for the node gives no positive latency: the
\* request failed, the status is an error, the body has no delay, or the
\* delay is not positive
NoLatency(r) == r.exc \/ r.status # 200 \/ ~r.hasDelay \/ r.delay <= 0

\* C10: find_healthy_node never calls select_proxy with, and never returns, a
\* node whose latency probe is non-positive, absent or failed; a body without
\* a delay is not taken for a usable latency of zero.
C10_NoLatencyExcluded ==
    \A n \in Nodes :
        NoLatency(latResp[n]) => (n \notin selectCalls /\ fresult # n)

\* C10, the case: the call probed a member whose answer has no delay value
\* and went on to return another node
C10_Witness ==
    /\ fpc = "done"
    /\ fresult # NoNode
    /\ \E n \in Range(forder) :
         /\ ~Skipped(n)
         /\ latResp[n] = R_absent
         /\ probes[n] = 1

\* C11: when get_proxies fails in a register function's find_healthy_node
\* call, the call returns None without probing any node, and the register
\* function returns None with no MailClient.register call, no attempt and no
\* BrowserController.
C11_ApiDownAborts ==
    (kind \in RegisterKinds /\ listFailed) =>
        /\ fpc # "loop"
        /\ fpc = "done" => fresult = NoNode
        /\ registerCalls = 0
        /\ attemptsMade = 0
        /\ sess = 0 /\ ~hasSession
        /\ CallOver => (pc = "fn_return" /\ ret = "none")

\* C11, the case: a register function has returned None after get_proxies
\* failed
C11_Witness ==
    /\ kind \in RegisterKinds
    /\ listFailed
    /\ pc = "fn_return"
    /\ ret = "none"

StageOrder ==
    << "login", "wait_for_code", "enter_verification_code",
       "wait_for_login_complete", "extract_cookies" >>

\* C13: the steps an attempt has called are an initial part of login,
\* wait_for_code, enter_verification_code, wait_for_login_complete,
\* extract_cookies in that order, and every step but the latest returned True
\* or a code; so extract_cookies is called only after wait_for_login_complete
\* returned True in the same attempt.
C13_StagesInOrder ==
    /\ Len(stages) <= Len(StageOrder)
    /\ \A k \in 1..Len(stages) :
         /\ stages[k][1] = StageOrder[k]
         /\ k < Len(stages) => stages[k][2]

\* C13, the case: an attempt has called all five steps
C13_Witness ==
    /\ Len(stages) = Len(StageOrder)
    /\ stages[Len(stages)][1] = "extract_cookies"

\* every step of the attempt has been called and returned True / a code / a
\* bundle with a non-empty secure_c_ses
AllPassed ==
    /\ Len(stages) = Len(StageOrder)
    /\ \A k \in 1..Len(stages) : stages[k][2]

\* C14: when, in the first attempt of a register function that found a node,
\* the code arrived on the second poll and login, code entry, completion wait
\* and extraction all succeeded, the function returns that attempt's bundle
\* merged with the generated email and password, having registered one
\* mailbox and started and stopped one BrowserController.
C14_FirstAttemptReturns ==
    (/\ kind \in RegisterKinds
     /\ pc \notin {"loop", "job_done", "job_raised"}
     /\ attempt = 0
     /\ AllPassed
     /\ codePoll = 2)
    => /\ pc \in {"ok_stop", "fn_return"}
       /\ registerCalls = 1
       /\ sess = 1
       /\ pc = "fn_return" =>
            /\ ret = "value"
            /\ stops = 1 /\ ~hasSession
            /\ cookie_data = MergeIdentity(Bundle("V"), FreshEmail(i, 0),
                                           FreshPassword(i, 0))

\* C15: the mailbox token is invalidated and fetched again on a 401: the
\* client never keeps a token that an inbox request (of clear_inbox or of
\* wait_for_code) was answered 401 with, and no later inbox request is sent
\* with such a token.
C15_TokenRefetchedOn401 ==
    /\ mtoken \notin m401
    /\ stalePolls = 0

\* C16: clear_inbox never aborts: whatever the login, the listing and each
\* delete do, the call ends without raising and returns a count (at most
\* the number of messages listed), and a DELETE is sent for every listed
\* message, also after a DELETE that failed.
C16_ClearInboxNeverAborts ==
    mpc = "cleared" =>
        /\ ~mraised
        /\ mret \in 0..Cardinality(mlisted)
        /\ mtried = mlisted

\* two messages listed, both DELETEs raised, both were sent
C16_Witness ==
    /\ mpc = "cleared"
    /\ Cardinality(mlisted) = 2
    /\ mret = 0
    /\ mtried = mlisted

\* the polls a wait_for_code(timeout) call can make: every pass that does
\* not return sleeps PollSleep seconds
MaxPolls(t) == (t + PollSleep - 1) \div PollSleep

WaitSafe ==
    /\ mpc \in {"poll", "done"} => wpolls <= MaxPolls(wtimeout)
    /\ mpc = "poll" => ~wsawCode /\ mtoken # 0
    /\ mpc = "done" /\ mret # NoCode => mret = wfirst.code
    /\ mpc = "done" /\ mret = NoCode =>
          \/ welapsed >= wtimeout /\ ~wsawCode
          \/ mtoken = 0 /\ wpolls = 0

\* C17: wait_for_code(timeout) ends for every behaviour of the inbox. The
\* code it returns is the one of the first-listed message of the poll that
\* returns; it is still polling only while no poll found a code in the
\* first-listed message, so a failed poll is followed by another one; it
\* returns none only when the elapsed time has reached the timeout, or
\* before any poll when the login fails.
C17_WaitForCodeTerminates ==
    /\ []WaitSafe
    /\ (mpc = "poll") ~> (mpc = "done")

\* code returned by the second or a later poll, from the newer of two
\* messages that both hold a code
C17_Witness ==
    /\ mpc = "done"
    /\ wpolls >= 2
    /\ mret # NoCode
    /\ Len(mbox) = 2
    /\ mbox[2].code # NoCode

\* the positions of the labelled tokens of a body: a word of 4 to 8
\* alphanumeric characters that follows a colon (whitespace may stand
\* between them), the colon following a label word
Labelled(b) ==
    { t \in 1..Len(b) :
        /\ b[t] \in TokenWords
        /\ \E l \in 1..Len(b), c \in 1..Len(b) :
             /\ l < c /\ c < t
             /\ b[l] \in LabelWords
             /\ b[c] \in Colons
             /\ \A k \in (c + 1)..(t - 1) : b[k] \in Spaces }

\* the positions of the standalone six-digit numbers of a body
Standalone(b) == { t \in 1..Len(b) : b[t] \in SixDigitWords }

Leftmost(S) == CHOOSE x \in S : \A y \in S : x <= y

\* C18: _extract_code gives priority to the labelled match: a body with a
\* labelled token yields its (first) labelled token, whether or not it also
\* holds a bare six-digit number; a body without a labelled match yields its
\* first standalone six-digit number; a body with neither yields none.
C18_LabelledTokenFirst ==
    extracted # NotCalled =>
        extracted = IF Labelled(text) # {} THEN Leftmost(Labelled(text))
                    ELSE IF Standalone(text) # {} THEN Leftmost(Standalone(text))
                    ELSE NotFound

\* a bare six-digit number stands before a labelled token that is not a
\* six-digit number, and the labelled token was returned
C18_Witness ==
    /\ extracted \notin {NotCalled, NotFound}
    /\ Standalone(text) # {}
    /\ Leftmost(Standalone(text)) < extracted
    /\ text[extracted] \notin SixDigitWords
    /\ extracted \in Labelled(text)

\* the cookie at position k is the only cookie of the jar with the primary name
OnlyPrimary(jar, k) ==
    /\ jar[k].name = PrimaryName
    /\ \A j \in 1..Len(jar) : jar[j].name = PrimaryName => j = k

\* C19: extract_cookies on a context whose cookies can be read and hold one
\* cookie named __Secure-C_SES, with value V: the dict has secure_c_ses = V;
\* with an expiry time T its expires_at is the text of T - 43200 seconds;
\* without an expiry (the key absent, or the browser's marker -1) its
\* expires_at is the text of the extraction time + 7 days.
C19_ExpiresAtFromExpiry ==
    cpc = "done" /\ ctx.url # "unreadable" /\ ctx.readable =>
        \A k \in 1..Len(ctx.cookies) :
            OnlyPrimary(ctx.cookies, k) =>
                LET c == ctx.cookies[k]
                IN /\ result.secure_c_ses = c.value
                   /\ result.expires_at =
                        IF c.expires \in {NoExpires, SessionMarker}
                        THEN Format(<<ctx.now + Week, 0>>)
                        ELSE Format(<<c.expires[1] - HalfDay, c.expires[2]>>)

\* the values of the cookies of a jar that carry the primary name
PrimaryValues(jar) == { jar[k].value : k \in { j \in 1..Len(jar) : jar[j].name = PrimaryName } }

\* C20 as stated: extract_cookies never raises, and when the URL never
\* reaches the target state, the primary cookie is missing or reading the
\* cookies fails, the dict has an empty secure_c_ses, which the caller
\* takes as a failed attempt.
C20_EmptyOnAnyFailure ==
    cpc = "done" =>
        /\ ~eraised
        /\ (ctx.url # "target" \/ ~ctx.readable \/ PrimaryValues(ctx.cookies) = {}) =>
              result.secure_c_ses = "" /\ ExtractFailed(result)

\* C20, amended: extract_cookies never raises. When the URL cannot be read,
\* reading the cookies fails or the primary cookie is missing, the dict has
\* an empty secure_c_ses, which the caller takes as a failed attempt. When
\* the URL never reaches the target state the function goes on: config_id
\* and csesidx stay empty and secure_c_ses is still taken from the primary
\* cookie, so the caller does not take it as a failure.
C20_EmptyOnMissingPrimary ==
    cpc = "done" =>
        /\ ~eraised
        /\ (ctx.url = "unreadable" \/ ~ctx.readable \/ PrimaryValues(ctx.cookies) = {}) =>
              result.secure_c_ses = "" /\ ExtractFailed(result)
        /\ (ctx.url = "elsewhere" /\ PrimaryValues(ctx.cookies) = {"V"}) =>
              /\ result.secure_c_ses = "V" /\ ~ExtractFailed(result)
              /\ result.config_id = "" /\ result.csesidx = ""

\* the URL never reached the target state and the primary cookie was returned
C20_Witness ==
    /\ cpc = "done"
    /\ ctx.url = "elsewhere"
    /\ result.secure_c_ses = "V"
    /\ ~ExtractFailed(result)

\* the job is over and no account function returned a bundle
NoBundle ==
    IF kind \in RegisterKinds THEN success_count = 0 ELSE ret # "value"

\* C21: a job that yields no bundle ends failed with an error set: a refresh
\* task whose refresh_single_account returns None, and a register task in
\* which every requested account fails.
C21_NoBundleJobFails ==
    (pc = "job_done" /\ kind \in ApiKinds /\ NoBundle) =>
        status = "failed" /\ taskError

TerminalStatus == {"success", "failed"}

\* the status changes a step of a task may make
StatusStep ==
    kind \in ApiKinds =>
    /\ status = "pending" => status' \in {"pending", "running"}
    /\ status = "running" => status' \in {"running"} \cup TerminalStatus
    /\ status \in TerminalStatus => status' = status

C23_UpsertByEmail ==
    /\ \A a, b \in 1..Len(jstore) : jstore[a].email = jstore[b].email => a = b
    /\ jcall # NoCall /\ jcall.raised => jstore = jprev
    /\ jcall # NoCall /\ ~jcall.raised =>
         LET idx == StoreIndex(jprev, jcall.email)
             k   == IF idx = 0 THEN Len(jprev) + 1 ELSE idx
         IN /\ Len(jstore) = IF idx = 0 THEN Len(jprev) + 1 ELSE Len(jprev)
            /\ \A j \in 1..Len(jprev) : j # k => jstore[j] = jprev[j]
            /\ jstore[k].email = jcall.email
            /\ jstore[k].secure_c_ses = jcall.value
            /\ jstore[k].updated_at = jcall.now
            /\ IF idx = 0
               THEN /\ jstore[k].created_at = jcall.now
                    /\ \A j \in 1..Len(jprev) : jprev[j].id # jstore[k].id
               ELSE /\ jstore[k].id = jprev[k].id
                    /\ jstore[k].created_at = jprev[k].created_at

\* the first of two records was written again at a later time
C23_Witness ==
    /\ ~jcall.raised
    /\ Len(jprev) = 2 /\ Len(jstore) = 2
    /\ jprev[1].email = jcall.email
    /\ jstore[1].updated_at > jstore[1].created_at
    /\ jstore[1].secure_c_ses # jprev[1].secure_c_ses

\* C24: result.csv is append-only with increasing ids: a call of
\* append_to_csv leaves the rows of the file as they were and, when it
\* returns True, adds one row after them whose id is greater than every
\* numeric id of the file (1 when the file is new or has no row); a call
\* that returns False adds nothing.
C24_LedgerAppendOnly ==
    lcall.n > 1 =>
        IF lcall.ok
        THEN /\ Len(lrows) = Len(lprev) + 1
             /\ SubSeq(lrows, 1, Len(lprev)) = lprev
             /\ lrows[Len(lrows)].numeric
             /\ \A k \in ValidIds(lprev) : lrows[Len(lrows)].id > k
             /\ lprev = <<>> => lrows[Len(lrows)].id = 1
        ELSE lrows = lprev

\* a row was added to a file whose largest id is not in its last row and
\* that has more rows than that id
C24_Witness ==
    /\ lcall.ok
    /\ Len(lprev) >= 2
    /\ lprev[1].numeric /\ lprev[1].id = 5
    /\ lrows[Len(lrows)].id = 7

\* the answers with status 200, 201 or 204
Accepted == {"200", "201", "204"}

\* C25: push makes at most retry_count POSTs; it goes on only after an
\* answer that is not 200, 201 or 204 (another status, a timeout, a request
\* error); it returns True at the first 200, 201 or 204, and False after
\* retry_count failed POSTs; it never raises.
C25_PushRetries ==
    /\ Len(pusher.outs) <= pusher.retry_count
    /\ ~pusher.raised
    /\ \A k \in 1..(Len(pusher.outs) - 1) : pusher.outs[k] \notin Accepted
    /\ pusher.pc = "loop" =>
         \A k \in 1..Len(pusher.outs) : pusher.outs[k] \notin Accepted
    /\ pusher.pc = "done" /\ pusher.ret =>
         pusher.outs # <<>> /\ pusher.outs[Len(pusher.outs)] \in Accepted
    /\ pusher.pc = "done" /\ ~pusher.ret /\ pusher.url =>
         /\ Len(pusher.outs) = pusher.retry_count
         /\ \A k \in 1..Len(pusher.outs) : pusher.outs[k] \notin Accepted

\* True at the third POST, after a timeout and an error status
C25_Witness ==
    /\ pusher.pc = "done" /\ pusher.ret
    /\ pusher.outs = <<"timeout", "500", "201">>

\* C26: nothing serializes probe + select + use across tasks: a task that
\* is about to call find_healthy_node can do so whenever it runs, also
\* while the browser session of the other task is live.
C26_FindNotSerialized ==
    \A j \in JobIds :
        (jobs[j].pc = "pending" /\ fpc = "idle") => ENABLED TwoFindCall(j)

\* the session of one task is live and the other task's find_healthy_node
\* has switched a group to another node since that session started
C26_Witness ==
    \E j \in JobIds, k \in JobIds :
        /\ j # k
        /\ jobs[j].live
        /\ jobs[k].pc \in {"finding", "found"}
        /\ jobs[j].route # selected

\* C27: a register operation selects its node once. From the moment
\* find_healthy_node has returned a node until the operation is over no step
\* calls find_healthy_node or switches a group, there are at most
\* max_retries attempts, and every attempt after the first one registers
\* another mailbox and, when that succeeds, creates another
\* BrowserController.
C27_Step ==
    (kind \in RegisterKinds /\ nodeFound /\ nodeFound') =>
        /\ findCalls' = findCalls
        /\ selected' = selected
        /\ fresult' = fresult
        /\ attemptsMade' <= max_retries
        /\ (attemptsMade >= 1 /\ attemptsMade' = attemptsMade + 1) =>
              /\ mailCreds'.email # mailCreds.email
              /\ registerCalls' = registerCalls + 1
              /\ (pc' = "start" => sess' = sess + 1)

C27_NodeSelectedOnce == [][C27_Step]_vars

\* the third attempt of a register operation starts its session after two
\* failed attempts
C27_Witness ==
    /\ kind \in RegisterKinds
    /\ nodeFound
    /\ attemptsMade = 3
    /\ pc = "start"
    /\ sess >= 2

\* C28: login makes at most 3 goto attempts; every attempt but the last
\* ended in a connection-closed or connection-reset error; after such an
\* error on attempt 1 or 2 another attempt follows; after such an error on
\* attempt 3, or after any other error, login has returned False without
\* another attempt.
C28_GotoRetries ==
    LET n == Len(login.outs) IN
    /\ n <= login_max_retries
    /\ \A k \in 1..(n - 1) : login.outs[k] \in {N_CLOSED, N_RESET}
    /\ login.pc = "goto" =>
          /\ n < login_max_retries
          /\ n = login.attempt
          /\ \A k \in 1..n : login.outs[k] \in {N_CLOSED, N_RESET}
    /\ (login.pc \notin {"idle", "ready", "goto"} /\ login.outs[n] # "ok") =>
          /\ login.pc = "done" /\ login.ret = "false" /\ login.raised = "goto"
          /\ login.outs[n] \in {N_CLOSED, N_RESET} => n = login_max_retries
    /\ (login.pc \notin {"idle", "ready", "goto"} /\ login.outs[n] = "ok") =>
          login.raised # "goto"

\* login has returned False after three connection errors in a row
C28_Witness ==
    /\ login.pc = "done"
    /\ login.ret = "false"
    /\ Len(login.outs) = 3
    /\ login.outs[1] = N_CLOSED
    /\ login.outs[3] = N_RESET

\* C29: in the page-change wait of login the continue action is retried at
\* most once, and it is retried in the 5th pass (the 5th second) exactly
\* when the first five passes saw neither a URL change nor a code input.
C29_RetryAtFifthSecond ==
    (login.pc = "done" /\ login.ret = "true") =>
        /\ Len(login.retryAt) <= 1
        /\ login.changedAt \in 1..5 => login.retryAt = <<>>
        /\ login.changedAt \notin 1..5 => login.retryAt = <<5>>

\* C30: when login is over, it has returned True if the identity field was
\* found and no step raised out of the body, whether or not the wait saw
\* the page change; and it has returned False only if the navigation
\* failed, the identity field was not found, or a step raised.
C30_LoginResult ==
    login.pc = "done" =>
        /\ (login.found /\ login.raised = "none") => login.ret = "true"
        /\ login.ret = "false" =>
              \/ login.raised = "goto"
              \/ (login.raised = "none" /\ ~login.found /\ login.outs # <<>>
                    /\ login.outs[Len(login.outs)] = "ok")
              \/ login.raised \in {"input", "click", "retry"}

\* login has returned True after 15 passes that saw no change
C30_Witness ==
    /\ login.pc = "done"
    /\ login.ret = "true"
    /\ login.found
    /\ ~login.page_changed
    /\ login.poll = WaitPolls
    /\ login.retryAt # <<>>

\* C31: after the code is submitted, enter_verification_code returns False
\* at the first poll whose URL holds a failure marker (and no home marker),
\* without making the remaining polls.
C31_FailsAtFirstMarker ==
    enter.failAt # 0 =>
        /\ enter.pc = "done"
        /\ enter.ret = "false"
        /\ enter.poll = enter.failAt

\* C32: enter_verification_code returns True exactly when a poll read a URL
\* with a home marker, or all 10 polls were made and the last URL holds no
\* failure marker; it returns False when 10 lookups did not find the code
\* input, when the last URL holds a failure marker, or when a step raised.
\* A URL with both a home marker and a failure marker gives True.
C32_EnterResult ==
    enter.pc = "done" =>
        /\ enter.ret = "true" <=>
              \/ enter.homeAt \in 1..CodePolls
              \/ /\ enter.poll = CodePolls /\ enter.homeAt = 0 /\ ~enter.raised
                 /\ ~HasAny(enter.url, fail_keywords)
        /\ enter.ret = "false" <=>
              \/ enter.raised
              \/ enter.poll = 0 /\ enter.lookups = CodeLookups
              \/ /\ enter.poll = CodePolls /\ enter.homeAt = 0
                 /\ HasAny(enter.url, fail_keywords)
        /\ (~enter.raised /\ enter.poll > 0 /\ HasAny(enter.url, HomeMarkers))
              => enter.ret = "true"

\* the 10th poll read a URL with a home marker and a failure marker
C32_Witness ==
    /\ enter.pc = "done"
    /\ enter.ret = "true"
    /\ enter.homeAt = CodePolls
    /\ {"home", "verify"} \subseteq enter.url

\* C33: wait_for_login_complete(timeout) reads the URL at most
\* floor(timeout / 3) times (not at all when timeout < 3), returns True at
\* the first read whose URL holds a logged-in marker, returns False
\* otherwise, also when a read raises, and always returns.
C33_Safe ==
    /\ waitc.reads <= waitc.timeout \div 3
    /\ waitc.timeout < 3 => waitc.reads = 0
    /\ waitc.markAt # 0 =>
          waitc.pc = "done" /\ waitc.ret = "true" /\ waitc.reads = waitc.markAt
    /\ waitc.pc = "done" =>
          /\ waitc.ret \in {"true", "false"}
          /\ waitc.ret = "true" <=> waitc.markAt # 0
          /\ waitc.raised => waitc.ret = "false"
          /\ (waitc.ret = "false" /\ ~waitc.raised) =>
                waitc.reads = waitc.timeout \div 3

C33_WaitComplete == [](C33_Safe) /\ <>(waitc.pc = "done")

\* a call with timeout 7 has made its two reads and returned False
C33_Witness ==
    /\ waitc.pc = "done"
    /\ waitc.timeout = 7
    /\ waitc.reads = 2
    /\ waitc.ret = "false"
    /\ ~waitc.raised

\* C34: in the runtime configuration _prepare_config writes, a synthesized
\* catch-all rule targets a group that is among the proxy-groups of that
\* configuration.
C34_SynthRuleTargetExists ==
    (prep.pc = "done" /\ ~prep.raised /\ prep.synth) =>
        \E k \in 1..Len(prep.groups.val) :
            prep.groups.val[k] = prep.rules.val[1][2]

\* C35: no browser state written by one session is visible to another
\* session, neither state left in the profile directory by an earlier
\* session nor state of a session that is live at the same time.
C35_NoStateAcrossSessions == \A j \in SessionIds : Visible(j) = {}

\* C36: when find_healthy_node returns a node, the resolved group routes
\* through that node at the moment of return, whatever the select requests
\* of the call were answered.
C36_ReturnedNodeIsSelected ==
    (fpc = "done" /\ ~NotNode(fresult)) => selected[fgroup] = fresult

\* C37: a call of update_accounts_json does not raise, whatever the date,
\* and the record it writes for the account carries the expires_at of the
\* bundle that was passed in.
C37_StoredExpiryIsBundleExpiry ==
    jcall # NoCall =>
        /\ ~jcall.raised
        /\ LET k == StoreIndex(jstore, jcall.email) IN
           k # 0 /\ jstore[k].expires_at = jcall.expires_at

\* C38: in a register batch the ledger rows and the store records are for
\* the same emails, one of each per successful account and none for a
\* failed one, and when the batch is over every requested account has been
\* attempted.
C38_LedgerMatchesStore ==
    kind \in RegisterKinds =>
        /\ Len(ledger) = Len(store)
        /\ \A k \in 1..Len(store) : ledger[k].email = store[k].email
        /\ pc \in {"loop", "job_done", "job_raised"} =>
              Len(store) = success_count
        /\ pc \in {"job_done", "job_raised"} =>
              success_count + fail_count = count

\* C39: the progress of a register task always has completed = success +
\* failed and completed <= total, and completed = total once the status is
\* success.
C39_ProgressConsistent ==
    kind = "api_register" =>
        /\ progress.completed = progress.success + progress.failed
        /\ progress.completed <= progress.total
        /\ status = "success" => progress.completed = progress.total

\* C40: once stop() has been called on a BrowserController, whether it
\* returned or raised, none of the context, the browser and the driver that
\* start() acquired is still open.
C40_StopReleasesAll ==
    /\ liveOthers = 0
    /\ (hasSession /\ stops > 0) => ~Live(res)

====
